---- MODULE Spec2Model ----
(***************************************************************************)
(* CanvasToDrive: the Canvas paginated fetcher and single-resource fetch   *)
(* (src/src/canvas_client.py), the course file scan (simple_demo.py,       *)
(* demo_canvas_to_drive.py) and the Google Drive existence check and       *)
(* upload (src/src/drive_client.py).                                       *)
(*                                                                         *)
(* Strings that the code parses are sequences of tokens: a Link header is  *)
(* a sequence such as << "<", "p2", ">", ";", " ", "rel=\"next\"" >>, and  *)
(* a URL is the sequence of tokens between the angle brackets.  The empty  *)
(* sequence stands for both None and "" (both falsy in Python).            *)
(***************************************************************************)
EXTENDS Integers, Sequences, FiniteSets, TLC

VARIABLES
    op,           \* the CanvasClient operation in progress: "none", "_get", "_get_paginated"
    pc,           \* its position: "idle", "await" (a GET is outstanding), "returned", "raised"
    endpoint,     \* its endpoint argument
    url,          \* _get_paginated: local url (<<>> when None or "")
    all_results,  \* _get_paginated: local all_results
    requests,     \* the URLs passed to session.get by the operation, in order
    responses,    \* the responses the operation has received, in order
    retval,       \* the value returned
    err           \* the status code carried by the raised CanvasAPIError (-1: none)

canvasVars == << op, pc, endpoint, url, all_results, requests, responses, retval, err >>

VARIABLES
    lms,              \* the courses the LMS serves: course id -> sequence of modules with items
    scan_pc,          \* main's course loop: "idle", "folder", "next_course", "course_info", "modules", "items", "done"
    course_idx,       \* position in COURSE_IDS (1-based)
    course_name,      \* main: course_name
    modules,          \* main: modules
    module_idx,       \* position in modules (1-based)
    course_files,     \* main: course_files
    all_files_found,  \* main: all_files_found
    scan_ok           \* the courses whose scan reached line 117, in order

scanVars == << lms, scan_pc, course_idx, course_name, modules, module_idx, course_files,
               all_files_found, scan_ok >>

VARIABLES
    store,          \* the Drive backend's files, in the order the backend lists them
    next_id,        \* the id the backend gives the next file it creates
    store_before,   \* store when the last GoogleDriveClient call began
    d_op,           \* the last GoogleDriveClient call: "none", "file_exists", "upload_file"
    d_args,         \* its arguments
    d_env,          \* how the backend answered during it
    listed,         \* the 'files' list of the last files().list().execute() that succeeded
    exists_ret,     \* what file_exists returned (NoFile: None)
    exists_raised,  \* whether an exception left file_exists
    upload_ret,     \* what upload_file returned (0: None)
    upload_raised,  \* whether an exception left upload_file
    drive_log       \* the backend calls of the last GoogleDriveClient call, in order

driveVars == << store, next_id, store_before, d_op, d_args, d_env, listed, exists_ret,
                exists_raised, upload_ret, upload_raised, drive_log >>

VARIABLES
    target_folder_id,      \* main: target_folder_id ("None": the Drive root)
    x_pc,                  \* main after the scan: "idle", "loop", "resolve", "download", "summary", "returned"
    x_idx,                 \* position of the transfer loop in all_files_found (1-based)
    x_run,                 \* how many times the transfer loop has been started
    file_info,             \* get_file_content: local file_info
    x_results,             \* the outcome of each file the loop has finished, in order
    successful_transfers,  \* main: successful_transfers
    failed_transfers,      \* main: failed_transfers
    skipped_duplicates,    \* main: skipped_duplicates
    x_log,                 \* the steps of this run of the loop, in order: [file, step]
    list_failed,           \* whether a files().list() call has failed since the program began
    store_first,           \* store when the program began
    store_run1,            \* store when the first run of the loop ended
    ok_run1                \* the positions whose transfer succeeded in the first run

VARIABLES
    served,        \* what the server answers to each URL; << >>: any response to any GET
    folders,       \* the Drive backend's folders, in the order the backend lists them
    folder_calls   \* the get_folder_id calls made so far, in order

folderVars == << folders, folder_calls >>

xferVars == << target_folder_id, x_pc, x_idx, x_run, file_info, x_results, successful_transfers,
               failed_transfers, skipped_duplicates, x_log, list_failed, store_first,
               store_run1, ok_run1 >>

vars == << canvasVars, scanVars, driveVars, xferVars, served, folderVars >>

-----------------------------------------------------------------------------
(* Bounds *)

\* the longest chain of pages the server serves for one paginated fetch
MaxPages == 3

-----------------------------------------------------------------------------
(* The LMS HTTP API: what one GET can be answered with *)

api_url == << "https://canvas/api/v1" >>

Endpoints == { << "/courses" >> }

NoBody == [isList |-> FALSE, items |-> << >>]

\* JSON bodies: a list of records, or a single record (isList = FALSE)
ListBody(s) == [isList |-> TRUE, items |-> s]

SingleBody(o) == [isList |-> FALSE, items |-> << o >>]

JsonBodies ==
    { ListBody(<< >>), ListBody(<< [id |-> 1] >>), ListBody(<< [id |-> 2], [id |-> 3] >>),
      ListBody(<< [id |-> 3], [id |-> 1] >>), SingleBody([id |-> 9]) }

LinkAbsent == [present |-> FALSE, value |-> << >>]

Hdr(toks) == [present |-> TRUE, value |-> toks]

LinkEmpty == Hdr(<< >>)

\*  <p2>; rel="next"
LinkNext == Hdr(<< "<", "p2", ">", ";", " ", "rel=\"next\"" >>)

\*  <p1>; rel="current", <p3>; rel="next", <p1>; rel="first"
LinkCurrentNextFirst ==
    Hdr(<< "<", "p1", ">", ";", " ", "rel=\"current\"", ",", " ",
           "<", "p3", ">", ";", " ", "rel=\"next\"", ",", " ",
           "<", "p1", ">", ";", " ", "rel=\"first\"" >>)

\*  <p2>; rel="prev", <p1>; rel="first", <p3>; rel="last"
LinkPrevFirstLast ==
    Hdr(<< "<", "p2", ">", ";", " ", "rel=\"prev\"", ",", " ",
           "<", "p1", ">", ";", " ", "rel=\"first\"", ",", " ",
           "<", "p3", ">", ";", " ", "rel=\"last\"" >>)

\*  <>; rel="next"
LinkNextEmptyUrl == Hdr(<< "<", ">", ";", " ", "rel=\"next\"" >>)

\*  <p2>; rel="next"; title="x"
LinkNextExtraParam ==
    Hdr(<< "<", "p2", ">", ";", " ", "rel=\"next\"", ";", " ", "title=\"x\"" >>)

LinkHeaders ==
    { LinkAbsent, LinkEmpty, LinkNext, LinkCurrentNextFirst, LinkPrevFirstLast,
      LinkNextEmptyUrl, LinkNextExtraParam }

\* a response: an HTTP response, or the transport failing (aiohttp.ClientError)
HttpResponse(s, b, l) == [kind |-> "http", status |-> s, body |-> b, link |-> l]

ClientError == [kind |-> "ClientError", status |-> 0, body |-> NoBody, link |-> LinkAbsent]

ErrorStatuses == {404, 500}

Responses ==
    { HttpResponse(200, b, l) : b \in JsonBodies, l \in LinkHeaders }
      \cup { HttpResponse(s, NoBody, LinkAbsent) : s \in ErrorStatuses }
      \cup { ClientError }

-----------------------------------------------------------------------------
(* str.split, str.strip and the slice [1:-1], on token sequences *)

RECURSIVE split(_, _)
split(s, sep) ==
    IF \A i \in 1..Len(s) : s[i] # sep
    THEN << s >>
    ELSE LET i == CHOOSE k \in 1..Len(s) : s[k] = sep /\ \A j \in 1..(k - 1) : s[j] # sep
         IN  << SubSeq(s, 1, i - 1) >> \o split(SubSeq(s, i + 1, Len(s)), sep)

RECURSIVE strip(_)
strip(s) ==
    IF s = << >> THEN s
    ELSE IF s[1] = " " THEN strip(Tail(s))
    ELSE IF s[Len(s)] = " " THEN strip(SubSeq(s, 1, Len(s) - 1))
    ELSE s

\* a variant that keeps the angle brackets
SliceNothing(s) == s

Slice1m1(s) == SubSeq(s, 2, Len(s) - 1)

\* a variant that forgets to look at the rel parameter
IsNextEntryAnyRel(link) == Len(split(link, ";")) = 2

\* canvas_client.py:107, the test that selects a link entry
IsNextEntry(link) ==
    LET parts == split(link, ";")
    IN  Len(parts) = 2 /\ strip(parts[2]) = << "rel=\"next\"" >>

\* canvas_client.py:100-110: next_link, <<>> when it stays None (or is "")
NextLink(link_header) ==
    IF ~link_header.present \/ link_header.value = << >>
    THEN << >>
    ELSE LET links == split(link_header.value, ",")
             hits  == { i \in 1..Len(links) : IsNextEntry(links[i]) }
         IN  IF hits = {}
             THEN << >>
             ELSE LET first == CHOOSE i \in hits : \A j \in hits : i <= j
                  IN  Slice1m1(strip(split(links[first], ";")[1]))

\* a variant that puts the new page in front
ExtendPrepend(results, data) == data \o results

\* canvas_client.py:92  all_results.extend(data)
Extend(results, data) == results \o data

NoneVal == [tag |-> "None", body |-> NoBody]

Value(b) == [tag |-> "value", body |-> b]

-----------------------------------------------------------------------------
(* CanvasClient._get *)

\* canvas_client.py:46-50: the URL is built and the GET is issued
GetStart(e) ==
    /\ op' = "_get"
    /\ pc' = "await"
    /\ endpoint' = e
    /\ requests' = << api_url \o e >>
    /\ responses' = << >>
    /\ retval' = NoneVal
    /\ err' = -1
    /\ UNCHANGED << url, all_results >>

\* a variant that treats 404 like every other error status
GetOutcome404Raises(r) ==
    IF r.kind = "ClientError" THEN [pc |-> "raised", retval |-> NoneVal, err |-> 0]
    ELSE IF r.status = 200 THEN [pc |-> "returned", retval |-> Value(r.body), err |-> -1]
    ELSE [pc |-> "raised", retval |-> NoneVal, err |-> r.status]

\* canvas_client.py:50-65: the outcome of _get for response r
GetOutcome(r) ==
    IF r.kind = "ClientError" THEN [pc |-> "raised", retval |-> NoneVal, err |-> 0]
    ELSE IF r.status = 200 THEN [pc |-> "returned", retval |-> Value(r.body), err |-> -1]
    ELSE IF r.status = 404 THEN [pc |-> "returned", retval |-> NoneVal, err |-> -1]
    ELSE [pc |-> "raised", retval |-> NoneVal, err |-> r.status]

GetResponse(r) ==
    /\ op = "_get" /\ pc = "await"
    /\ LET o == GetOutcome(r)
       IN  /\ pc' = o.pc
           /\ retval' = o.retval
           /\ err' = o.err
    /\ responses' = Append(responses, r)
    /\ UNCHANGED << op, endpoint, url, all_results, requests >>

-----------------------------------------------------------------------------
(* CanvasClient._get_paginated *)

\* canvas_client.py:78-84: locals are set, the loop is entered and the first GET issued
PagStart(e) ==
    /\ op' = "_get_paginated"
    /\ pc' = "await"
    /\ endpoint' = e
    /\ url' = api_url \o e
    /\ all_results' = << >>
    /\ requests' = << api_url \o e >>
    /\ responses' = << >>
    /\ retval' = NoneVal
    /\ err' = -1

\* a variant that answers a missing page with what was accumulated, as _get answers None
PagFailureNotFoundEmpty(r, results, u) ==
    IF r.kind = "http" /\ r.status = 404
    THEN [pc |-> "returned", retval |-> Value(ListBody(results)), all_results |-> results,
          url |-> u, err |-> -1]
    ELSE [pc |-> "raised", retval |-> NoneVal, all_results |-> results, url |-> u,
          err |-> IF r.kind = "ClientError" THEN 0 ELSE r.status]

\* a variant that logs the failure and returns what was accumulated
PagFailureSwallow(r, results, u) ==
    [pc |-> "returned", retval |-> Value(ListBody(results)), all_results |-> results,
     url |-> u, err |-> -1]

\* a variant that requests the failed page again
PagFailureRetry(r, results, u) ==
    [pc |-> "await", retval |-> NoneVal, all_results |-> results, url |-> u, err |-> -1]

\* canvas_client.py:85-88 and 113-116: a failed page
PagFailure(r, results, u) ==
    [pc |-> "raised", retval |-> NoneVal, all_results |-> results, url |-> u,
     err |-> IF r.kind = "ClientError" THEN 0 ELSE r.status]

\* canvas_client.py:90-111 and 81, 118-119: a page with status 200
PagPage(r, results, u) ==
    IF r.body.isList
    THEN LET res  == Extend(results, r.body.items)
             next == NextLink(r.link)
         IN  IF next # << >>
             THEN [pc |-> "await", retval |-> NoneVal, all_results |-> res, url |-> next,
                   err |-> -1]
             ELSE [pc |-> "returned", retval |-> Value(ListBody(res)), all_results |-> res,
                   url |-> next, err |-> -1]
    ELSE IF results = << >>
         THEN [pc |-> "returned", retval |-> Value(r.body), all_results |-> results,
               url |-> u, err |-> -1]
         ELSE [pc |-> "returned", retval |-> Value(ListBody(results)),
               all_results |-> results, url |-> u, err |-> -1]

\* canvas_client.py:84-116: one response of the loop
PagOutcome(r, results, u) ==
    IF r.kind = "ClientError" \/ r.status # 200
    THEN PagFailure(r, results, u)
    ELSE PagPage(r, results, u)

\* the response arrives and the loop body runs to the next GET or to the end
PagResponse(r) ==
    /\ op = "_get_paginated" /\ pc = "await"
    /\ LET o == PagOutcome(r, all_results, url)
       IN  /\ o.pc = "await" => Len(requests) < MaxPages
           /\ pc' = o.pc
           /\ retval' = o.retval
           /\ err' = o.err
           /\ all_results' = o.all_results
           /\ url' = o.url
           /\ requests' = IF o.pc = "await" THEN Append(requests, o.url) ELSE requests
    /\ responses' = Append(responses, r)
    /\ UNCHANGED << op, endpoint >>

-----------------------------------------------------------------------------
(* main's course loop is not running *)

ScanIdle ==
    /\ lms = << >>
    /\ scan_pc = "idle"
    /\ course_idx = 0
    /\ course_name = << >>
    /\ modules = << >>
    /\ module_idx = 0
    /\ course_files = << >>
    /\ all_files_found = << >>
    /\ scan_ok = << >>

-----------------------------------------------------------------------------
(* The GoogleDriveClient has not been called and the Drive is empty *)

NoFile == [id |-> 0, name |-> "", mimeType |-> ""]

NoArgs == [filename |-> "", folder_id |-> "None", payload |-> "none",
           progress_callback |-> FALSE]

NoEnv == [list |-> "ok", upload |-> "ok", chunks |-> 0, reexec |-> "same"]

DriveCallIdle ==
    /\ d_op = "none"
    /\ d_args = NoArgs
    /\ d_env = NoEnv
    /\ listed = << >>
    /\ exists_ret = NoFile
    /\ exists_raised = FALSE
    /\ upload_ret = 0
    /\ upload_raised = FALSE
    /\ drive_log = << >>

DriveIdle ==
    /\ store = << >>
    /\ next_id = 1
    /\ store_before = << >>
    /\ DriveCallIdle

-----------------------------------------------------------------------------
(* main has not reached the transfer loop *)

NoInfo == [tag |-> "None"]

\* no fixed server, and a Drive without folders on which get_folder_id was not called
RestIdle ==
    /\ served = << >>
    /\ folders = << >>
    /\ folder_calls = << >>

XferIdle ==
    /\ target_folder_id = "None"
    /\ x_pc = "idle"
    /\ x_idx = 0
    /\ x_run = 0
    /\ file_info = NoInfo
    /\ x_results = << >>
    /\ successful_transfers = 0
    /\ failed_transfers = 0
    /\ skipped_duplicates = 0
    /\ x_log = << >>
    /\ list_failed = FALSE
    /\ store_first = << >>
    /\ store_run1 = << >>
    /\ ok_run1 = {}

-----------------------------------------------------------------------------
(* The CanvasClient on its own: one call of _get or of _get_paginated *)

CanvasInit ==
    /\ op = "none"
    /\ pc = "idle"
    /\ endpoint = << >>
    /\ url = << >>
    /\ all_results = << >>
    /\ requests = << >>
    /\ responses = << >>
    /\ retval = NoneVal
    /\ err = -1

_get == \E e \in Endpoints : pc = "idle" /\ GetStart(e)

_get_response == \E r \in Responses : GetResponse(r)

_get_paginated == \E e \in Endpoints : pc = "idle" /\ PagStart(e)

_get_paginated_response == \E r \in Responses : PagResponse(r)

CanvasNext ==
    \/ _get /\ UNCHANGED << scanVars, driveVars, xferVars, served, folderVars >>
    \/ _get_response /\ UNCHANGED << scanVars, driveVars, xferVars, served, folderVars >>
    \/ _get_paginated /\ UNCHANGED << scanVars, driveVars, xferVars, served, folderVars >>
    \/ _get_paginated_response /\ UNCHANGED << scanVars, driveVars, xferVars, served, folderVars >>

\* a CanvasClient alone: no course scan is running and no Drive call is made
CanvasAloneInit == CanvasInit /\ ScanIdle /\ DriveIdle /\ XferIdle /\ RestIdle

SpecCanvas == CanvasAloneInit /\ [][CanvasNext]_vars

-----------------------------------------------------------------------------
(* The paginated fetcher against a server that has one answer for each URL *)

ChainUrls == { api_url \o << "/courses" >>, << "p2" >>, << "p3" >> }

\* the answers a URL can have; their next links lead to p2 or to p3
ChainAnswers ==
    { HttpResponse(200, ListBody(<< [id |-> 1] >>), LinkNext),
      HttpResponse(200, ListBody(<< [id |-> 2], [id |-> 3] >>), LinkCurrentNextFirst),
      HttpResponse(200, ListBody(<< >>), LinkPrevFirstLast),
      HttpResponse(200, ListBody(<< [id |-> 1] >>), LinkAbsent),
      HttpResponse(200, ListBody(<< [id |-> 1] >>), LinkNextExtraParam),
      HttpResponse(200, SingleBody([id |-> 9]), LinkNext),
      HttpResponse(500, NoBody, LinkAbsent),
      ClientError }

\* the server answers the outstanding GET with its answer for that URL
ChainResponse ==
    /\ served # << >>
    /\ requests # << >>
    /\ PagResponse(served[requests[Len(requests)]])
    /\ UNCHANGED << scanVars, driveVars, xferVars, served, folderVars >>

ChainInit ==
    /\ CanvasInit
    /\ ScanIdle
    /\ DriveIdle
    /\ XferIdle
    /\ folders = << >>
    /\ folder_calls = << >>
    /\ served \in [ChainUrls -> ChainAnswers]

ChainNext ==
    \/ _get_paginated /\ UNCHANGED << scanVars, driveVars, xferVars, served, folderVars >>
    \/ ChainResponse

\* the outstanding GET has been answered
Answered ==
    /\ pc = "await" /\ requests # << >>
    /\ responses' = Append(responses, served[requests[Len(requests)]])

\* a fetch is begun, and every GET is answered (or fails in transport) and the
\* answer handled after a finite time
SpecChain ==
    ChainInit /\ [][ChainNext]_vars /\ WF_canvasVars(_get_paginated) /\ WF_responses(Answered)

-----------------------------------------------------------------------------
(* Properties of the paginated fetcher and of the single-resource fetch *)

Is200(r) == r.kind = "http" /\ r.status = 200

Is200List(r) == Is200(r) /\ r.body.isList

RECURSIVE ConcatPages(_)
ConcatPages(rs) ==
    IF rs = << >> THEN << >> ELSE rs[1].body.items \o ConcatPages(Tail(rs))

RECURSIVE SumSizes(_)
SumSizes(rs) == IF rs = << >> THEN 0 ELSE Len(rs[1].body.items) + SumSizes(Tail(rs))

\* C1: when every page of a paginated fetch answered 200 with a list body, the
\* fetch returns one list, the concatenation of the page bodies in response
\* order, of length s1 + ... + sN.
C1_PagesConcatenated ==
    (op = "_get_paginated" /\ pc = "returned"
        /\ \A i \in 1..Len(responses) : Is200List(responses[i]))
    => /\ retval = Value(ListBody(ConcatPages(responses)))
       /\ Len(retval.body.items) = SumSizes(responses)

C1_Witness ==
    /\ op = "_get_paginated" /\ pc = "returned"
    /\ Len(responses) = 3
    /\ \A i \in 1..3 : Is200List(responses[i])
    /\ retval.body.items = << [id |-> 1], [id |-> 2], [id |-> 3], [id |-> 3], [id |-> 1] >>

\* the header has a token rel="next" somewhere
HasRelNext(h) == \E k \in 1..Len(h.value) : h.value[k] = "rel=\"next\""

\* the header has an entry that reads exactly  <url>; rel="next"  with a url
HasPlainNextEntry(h) ==
    LET v == h.value
    IN  \E k \in 1..Len(v) :
            /\ k + 5 <= Len(v)
            /\ k = 1 \/ v[k - 1] = "," \/ (k > 2 /\ v[k - 1] = " " /\ v[k - 2] = ",")
            /\ v[k] = "<" /\ v[k + 1] \notin {"<", ">", ";", ",", " "} /\ v[k + 2] = ">"
            /\ v[k + 3] = ";" /\ v[k + 4] = " " /\ v[k + 5] = "rel=\"next\""
            /\ k + 5 = Len(v) \/ v[k + 6] = ","

\* a GET was issued after the i-th response
FurtherGetAfter(i) == Len(requests) > i

\* C2 as stated: after a 200 response a further GET is issued if and only if
\* the Link header of that response has an entry marked rel="next", whatever
\* the page's content.
C2_StopsExactlyWithoutNext ==
    op = "_get_paginated" =>
        \A i \in 1..Len(responses) :
            Is200(responses[i]) => (FurtherGetAfter(i) <=> HasRelNext(responses[i].link))

\* C2 amended: after a 200 response a further GET is issued if and only if the
\* body is a list and the Link header has an entry of exactly the form
\* <url>; rel="next" with a non-empty url.
C2_StopsExactlyWithoutNextOnLists ==
    op = "_get_paginated" =>
        \A i \in 1..Len(responses) :
            Is200(responses[i]) =>
                (FurtherGetAfter(i) <=>
                    (responses[i].body.isList /\ HasPlainNextEntry(responses[i].link)))

C2_Witness ==
    /\ op = "_get_paginated" /\ pc = "returned"
    /\ Len(responses) = 2 /\ Len(requests) = 2
    /\ Is200List(responses[1]) /\ responses[1].link = LinkCurrentNextFirst
    /\ Is200(responses[2]) /\ ~responses[2].body.isList /\ responses[2].link = LinkNext

\* C3: a page (first or later) that answers with a status other than 200 and
\* 404 makes the fetch raise an error carrying that status; no further page is
\* requested and nothing accumulated is returned.
C3_ErrorStatusAborts ==
    op = "_get_paginated" =>
        \A i \in 1..Len(responses) :
            (responses[i].kind = "http" /\ responses[i].status \notin {200, 404})
            => /\ pc = "raised"
               /\ err = responses[i].status
               /\ retval = NoneVal
               /\ Len(responses) = i
               /\ Len(requests) = i

C3_Witness ==
    /\ op = "_get_paginated" /\ pc = "raised" /\ err = 500
    /\ Len(responses) = 2 /\ responses[2].status = 500
    /\ all_results # << >>

\* C4: _get returns the JSON body on 200, None on 404, and raises an error
\* carrying the status on every other status.
C4_GetByStatus ==
    (op = "_get" /\ Len(responses) = 1 /\ responses[1].kind = "http")
    => LET r == responses[1]
       IN  /\ r.status = 200 => (pc = "returned" /\ retval = Value(r.body) /\ err = -1)
           /\ r.status = 404 => (pc = "returned" /\ retval = NoneVal /\ err = -1)
           /\ r.status \notin {200, 404} => (pc = "raised" /\ err = r.status)

C4_Witness ==
    /\ op = "_get" /\ pc = "returned" /\ retval = NoneVal
    /\ Len(responses) = 1 /\ responses[1].kind = "http" /\ responses[1].status = 404

\* C5: one GET per page and no retry: the fetch has issued as many GETs as it
\* has received pages (one more while a GET is outstanding), the first GET is
\* for the endpoint, a GET follows only a page that answered 200, a successful
\* fetch of N pages has issued N GETs and a failure at page k leaves k GETs.
C5_OneGetPerPage ==
    op = "_get_paginated" =>
        /\ Len(requests) = Len(responses) + (IF pc = "await" THEN 1 ELSE 0)
        /\ requests[1] = api_url \o endpoint
        /\ \A i \in 1..Len(responses) :
               ~Is200(responses[i]) => (pc = "raised" /\ Len(requests) = i)
        /\ pc = "returned" => Len(requests) = Len(responses)

C5_Witness ==
    /\ op = "_get_paginated" /\ pc = "raised"
    /\ Len(requests) = 3 /\ Len(responses) = 3
    /\ responses[3].kind = "ClientError"

-----------------------------------------------------------------------------
(* The LMS as the course scan sees it: courses with modules with items,    *)
(* served in pages of PerPage records with Canvas's Link header            *)

\* simple_demo.py:30
COURSE_IDS == << "213800", "214943", "213007" >>

\* records per page of a collection
PerPage == 2

FileA == [type |-> "File", title |-> "syllabus.pdf", content_id |-> 1]

FileB == [type |-> "File", title |-> "notes.pdf", content_id |-> 2]

PageItem == [type |-> "Page", title |-> "intro", page_url |-> "intro"]

\* a module item without a type key
UntypedItem == [title |-> "header"]

NoModules == << >>

TwoModules ==
    << [id |-> "m1", name |-> "Week 1", items |-> << FileA >>],
       [id |-> "m2", name |-> "Week 2", items |-> << FileB >>] >>

ThreeModules ==
    << [id |-> "m1", name |-> "Week 1", items |-> << PageItem, FileB, FileA >>],
       [id |-> "m2", name |-> "Week 2", items |-> << >>],
       [id |-> "m3", name |-> "Week 3", items |-> << FileA, UntypedItem >>] >>

CourseContents == { NoModules, TwoModules, ThreeModules }

CourseIdSet == { COURSE_IDS[i] : i \in 1..Len(COURSE_IDS) }

ModuleIds == { "m1", "m2", "m3" }

\* canvas_client.py:131  f"/courses/{course_id}"
CourseEndpoint(c) == << "/courses/", c >>

\* canvas_client.py:178  f"/courses/{course_id}/modules"
ModulesEndpoint(c) == << "/courses/", c, "/modules" >>

\* canvas_client.py:205  f"/courses/{course_id}/modules/{module_id}/items"
ItemsEndpoint(c, m) == << "/courses/", c, "/modules/", m, "/items" >>

PageTokens == << "1", "2", "3", "4", "5", "6" >>

IsPaged(u) == Len(u) >= 2 /\ u[Len(u) - 1] = "?page="

UrlPage(u) ==
    IF IsPaged(u)
    THEN CHOOSE k \in 1..Len(PageTokens) : PageTokens[k] = u[Len(u)]
    ELSE 1

UrlBase(u) == IF IsPaged(u) THEN SubSeq(u, 1, Len(u) - 2) ELSE u

WithPage(u, k) == UrlBase(u) \o << "?page=", PageTokens[k] >>

LinkEntry(u, rel) == << "<" >> \o u \o << ">", ";", " ", rel >>

ModuleJson(m) == [id |-> m.id, name |-> m.name]

ModuleJsons(c) == [i \in 1..Len(lms[c]) |-> ModuleJson(lms[c][i])]

\* the collection a URL names: <<TRUE, records>>, or <<FALSE, <<>>>> when there is none
Collection(u) ==
    LET b == UrlBase(u)
        cs == { c \in DOMAIN lms : b = api_url \o ModulesEndpoint(c) }
        ms == { cm \in (DOMAIN lms) \X ModuleIds :
                  /\ b = api_url \o ItemsEndpoint(cm[1], cm[2])
                  /\ \E i \in 1..Len(lms[cm[1]]) : lms[cm[1]][i].id = cm[2] }
    IN  IF cs # {} THEN << TRUE, ModuleJsons(CHOOSE c \in cs : TRUE) >>
        ELSE IF ms # {}
        THEN LET cm == CHOOSE x \in ms : TRUE
                 i  == CHOOSE k \in 1..Len(lms[cm[1]]) : lms[cm[1]][k].id = cm[2]
             IN  << TRUE, lms[cm[1]][i].items >>
        ELSE << FALSE, << >> >>

Min(a, b) == IF a <= b THEN a ELSE b

\* canvas_client.py:245  f"/files/{file_id}"
FilesEndpoint(t) == << "/files/", t >>

\* the files the LMS holds, by the token of their id: the metadata the files
\* endpoint serves; the url of a locked file is empty
RemoteFiles ==
    [t \in { "1", "2", "3" } |->
        [id |-> t,
         display_name |-> IF t = "1" THEN "syllabus.pdf"
                          ELSE IF t = "2" THEN "notes.pdf" ELSE "locked.pdf",
         url |-> IF t = "3" THEN << >> ELSE << "https://canvas/files/", t, "/download" >>,
         size |-> IF t = "1" THEN 10 ELSE 20]]

\* the bytes a download URL serves
BytesBody(n) == [isList |-> FALSE, items |-> << [bytes |-> n] >>]

\* the LMS's answer to GET u when nothing fails
Serve(u) ==
    LET cs == { c \in DOMAIN lms : u = api_url \o CourseEndpoint(c) }
        fs == { t \in DOMAIN RemoteFiles : u = api_url \o FilesEndpoint(t) }
        ds == { t \in DOMAIN RemoteFiles : u # << >> /\ u = RemoteFiles[t].url }
        coll == Collection(u)
        k == UrlPage(u)
    IN  IF fs # {}
        THEN HttpResponse(200, SingleBody(RemoteFiles[CHOOSE t \in fs : TRUE]), LinkAbsent)
        ELSE IF ds # {}
        THEN HttpResponse(200, BytesBody(RemoteFiles[CHOOSE t \in ds : TRUE].size), LinkAbsent)
        ELSE IF cs # {}
        THEN HttpResponse(200,
                 SingleBody([id |-> CHOOSE c \in cs : TRUE, name |-> << "Statistical Learning" >>]),
                 LinkAbsent)
        ELSE IF ~coll[1] THEN HttpResponse(404, NoBody, LinkAbsent)
        ELSE LET recs == coll[2]
                 page == SubSeq(recs, (k - 1) * PerPage + 1, Min(k * PerPage, Len(recs)))
                 more == k * PerPage < Len(recs)
                 link == LinkEntry(WithPage(u, k), "rel=\"current\"")
                         \o (IF more
                             THEN << ",", " " >> \o LinkEntry(WithPage(u, k + 1), "rel=\"next\"")
                             ELSE << >>)
                         \o << ",", " " >> \o LinkEntry(WithPage(u, 1), "rel=\"first\"")
             IN  HttpResponse(200, ListBody(page), Hdr(link))

\* what the outstanding GET of the scan can be answered with
ScanResponses ==
    IF requests = << >> THEN {}
    ELSE { Serve(requests[Len(requests)]), HttpResponse(500, NoBody, LinkAbsent), ClientError }

-----------------------------------------------------------------------------
(* simple_demo.py main, step 4: the course loop *)

\* dict.get(key, default)
DictGet(d, k, default) == IF k \in DOMAIN d THEN d[k] ELSE default

\* f'Course {course_id}'
DefaultCourseName(c) == << "Course ", c >>

\* a variant that keeps every module item
IsFileItemAny(item) == TRUE

\* simple_demo.py:104  item.get('type') == 'File'
IsFileItem(item) == DictGet(item, "type", "None") = "File"

\* simple_demo.py:105-113  file_info
FileInfo(c, cname, mname, item) ==
    [course_id |-> c, course_name |-> cname, module_name |-> mname,
     title |-> DictGet(item, "title", "Unknown File"),
     content_id |-> DictGet(item, "content_id", -1)]

\* a variant of the item loop that leaves out a file whose content_id was found before
RECURSIVE ItemLoopDedup(_, _, _, _, _)
ItemLoopDedup(files, c, cname, mname, items) ==
    IF items = << >> THEN files
    ELSE ItemLoopDedup(IF /\ IsFileItem(items[1])
                          /\ \A i \in 1..Len(files) :
                                 files[i].content_id # DictGet(items[1], "content_id", -1)
                       THEN Append(files, FileInfo(c, cname, mname, items[1]))
                       ELSE files,
                       c, cname, mname, Tail(items))

\* simple_demo.py:103-115  the item loop of one module
RECURSIVE ItemLoop(_, _, _, _, _)
ItemLoop(files, c, cname, mname, items) ==
    IF items = << >> THEN files
    ELSE ItemLoop(IF IsFileItem(items[1])
                  THEN Append(files, FileInfo(c, cname, mname, items[1]))
                  ELSE files,
                  c, cname, mname, Tail(items))

CurrentCourse == COURSE_IDS[course_idx]

\* simple_demo.py:69-75: top of the course loop; get_course is called
ScanCourse ==
    /\ scan_pc = "next_course"
    /\ IF course_idx <= Len(COURSE_IDS)
       THEN /\ GetStart(CourseEndpoint(CurrentCourse))
            /\ scan_pc' = "course_info"
       ELSE /\ scan_pc' = "done"
            /\ UNCHANGED canvasVars
    /\ UNCHANGED << lms, course_idx, course_name, modules, module_idx, course_files,
                    all_files_found, scan_ok >>

\* simple_demo.py:75-92: get_course has ended; course_name is set, get_modules is called
ScanCourseInfo ==
    /\ scan_pc = "course_info" /\ op = "_get" /\ pc \in {"returned", "raised"}
    /\ course_name' =
          IF pc = "returned" /\ retval.tag = "value" /\ ~retval.body.isList
          THEN DictGet(retval.body.items[1], "name", DefaultCourseName(CurrentCourse))
          ELSE DefaultCourseName(CurrentCourse)
    /\ course_files' = << >>
    /\ PagStart(ModulesEndpoint(CurrentCourse))
    /\ scan_pc' = "modules"
    /\ UNCHANGED << lms, course_idx, modules, module_idx, all_files_found, scan_ok >>

\* a variant that keeps what was found before the exception
EndCourseKeepsPartial(ok, files) ==
    /\ all_files_found' = all_files_found \o files
    /\ scan_ok' = IF ok THEN Append(scan_ok, CurrentCourse) ELSE scan_ok
    /\ course_idx' = course_idx + 1
    /\ scan_pc' = "next_course"
    /\ UNCHANGED canvasVars

\* simple_demo.py:117-122: the end of one course's scan; ok = no exception was raised
EndCourse(ok, files) ==
    /\ all_files_found' = IF ok THEN all_files_found \o files ELSE all_files_found
    /\ scan_ok' = IF ok THEN Append(scan_ok, CurrentCourse) ELSE scan_ok
    /\ course_idx' = course_idx + 1
    /\ scan_pc' = "next_course"
    /\ UNCHANGED canvasVars

\* simple_demo.py:92-101: get_modules has ended; the module loop starts
ScanModules ==
    /\ scan_pc = "modules" /\ op = "_get_paginated" /\ pc \in {"returned", "raised"}
    /\ IF pc = "raised" \/ ~retval.body.isList
       THEN /\ EndCourse(FALSE, course_files)
            /\ UNCHANGED << modules, module_idx, course_files >>
       ELSE /\ modules' = retval.body.items
            /\ UNCHANGED course_files
            /\ IF retval.body.items = << >>
               THEN /\ EndCourse(TRUE, course_files)
                    /\ UNCHANGED module_idx
               ELSE /\ module_idx' = 1
                    /\ PagStart(ItemsEndpoint(CurrentCourse,
                                              DictGet(retval.body.items[1], "id", "None")))
                    /\ scan_pc' = "items"
                    /\ UNCHANGED << course_idx, all_files_found, scan_ok >>
    /\ UNCHANGED << lms, course_name >>

\* simple_demo.py:101-118: the items of one module have arrived; they are filtered
\* and the loop goes on to the next module or ends the course
ScanItems ==
    /\ scan_pc = "items" /\ op = "_get_paginated" /\ pc \in {"returned", "raised"}
    /\ IF pc = "raised" \/ ~retval.body.isList
       THEN /\ EndCourse(FALSE, course_files)
            /\ UNCHANGED << module_idx, course_files >>
       ELSE LET files == ItemLoop(course_files, CurrentCourse, course_name,
                                  DictGet(modules[module_idx], "name", "Unknown Module"),
                                  retval.body.items)
            IN  /\ course_files' = files
                /\ IF module_idx < Len(modules)
                   THEN /\ module_idx' = module_idx + 1
                        /\ PagStart(ItemsEndpoint(CurrentCourse,
                                        DictGet(modules[module_idx + 1], "id", "None")))
                        /\ UNCHANGED << scan_pc, course_idx, all_files_found, scan_ok >>
                   ELSE /\ EndCourse(TRUE, files)
                        /\ UNCHANGED module_idx
    /\ UNCHANGED << lms, course_name, modules >>

\* the LMS answers the outstanding GET of get_course
ScanGetResponse ==
    \E r \in ScanResponses : GetResponse(r) /\ UNCHANGED << scanVars, driveVars, xferVars, served, folderVars >>

\* the LMS answers the outstanding GET of get_modules or get_module_items_with_session
ScanPagResponse ==
    \E r \in ScanResponses : PagResponse(r) /\ UNCHANGED << scanVars, driveVars, xferVars, served, folderVars >>

ScanInit ==
    /\ CanvasInit
    /\ RestIdle
    /\ DriveIdle
    /\ XferIdle
    /\ lms \in [CourseIdSet -> CourseContents]
    /\ scan_pc = "next_course"
    /\ course_idx = 1
    /\ course_name = << >>
    /\ modules = << >>
    /\ module_idx = 0
    /\ course_files = << >>
    /\ all_files_found = << >>
    /\ scan_ok = << >>

ScanNext ==
    \/ ScanCourse /\ UNCHANGED << driveVars, xferVars, served, folderVars >>
    \/ ScanGetResponse
    \/ ScanCourseInfo /\ UNCHANGED << driveVars, xferVars, served, folderVars >>
    \/ ScanPagResponse
    \/ ScanModules /\ UNCHANGED << driveVars, xferVars, served, folderVars >>
    \/ ScanItems /\ UNCHANGED << driveVars, xferVars, served, folderVars >>

SpecScan == ScanInit /\ [][ScanNext]_vars

-----------------------------------------------------------------------------
(* Properties of the course scan *)

\* the File items of a module, in item order, tagged with the module's name
RECURSIVE FilesOfItems(_, _, _)
FilesOfItems(c, mname, items) ==
    IF items = << >> THEN << >>
    ELSE (IF "type" \in DOMAIN items[1] /\ items[1].type = "File"
          THEN << [course_id |-> c, module_name |-> mname, title |-> items[1].title,
                   content_id |-> items[1].content_id] >>
          ELSE << >>)
         \o FilesOfItems(c, mname, Tail(items))

RECURSIVE FilesOfModules(_, _)
FilesOfModules(c, ms) ==
    IF ms = << >> THEN << >>
    ELSE FilesOfItems(c, ms[1].name, ms[1].items) \o FilesOfModules(c, Tail(ms))

RECURSIVE FilesOfCourses(_)
FilesOfCourses(cs) ==
    IF cs = << >> THEN << >>
    ELSE FilesOfModules(cs[1], lms[cs[1]]) \o FilesOfCourses(Tail(cs))

Descriptor(f) ==
    [course_id |-> f.course_id, module_name |-> f.module_name, title |-> f.title,
     content_id |-> f.content_id]

Descriptors(fs) == [i \in 1..Len(fs) |-> Descriptor(fs[i])]

\* C6: the descriptors found for the courses scanned so far are exactly the
\* items of type "File" of those courses' modules, in module order and then
\* item order, each with the name of its module; no other item appears.
C6_ScanListsFileItems ==
    scan_pc # "idle" =>
        /\ Descriptors(all_files_found) = FilesOfCourses(scan_ok)
        /\ \A i \in 1..Len(all_files_found) :
               \E m \in 1..Len(lms[all_files_found[i].course_id]) :
                   LET mod == lms[all_files_found[i].course_id][m]
                   IN  /\ mod.name = all_files_found[i].module_name
                       /\ \E j \in 1..Len(mod.items) :
                              /\ "type" \in DOMAIN mod.items[j]
                              /\ mod.items[j].type = "File"
                              /\ mod.items[j].title = all_files_found[i].title

C6_Witness ==
    /\ scan_pc = "done"
    /\ scan_ok = << COURSE_IDS[1], COURSE_IDS[3] >>
    /\ lms[COURSE_IDS[1]] = ThreeModules
    /\ lms[COURSE_IDS[2]] = TwoModules
    /\ lms[COURSE_IDS[3]] = TwoModules
    /\ Len(all_files_found) = 5

-----------------------------------------------------------------------------
(* GoogleDriveClient.file_exists and upload_file over the Drive backend *)

\* the most files the Drive holds
MaxStore == 2

\* the most next_chunk calls of one resumable upload
MaxChunks == 2

FileNames == { "syllabus.pdf", "notes.pdf" }

\* folder_id arguments; "None" is Python's None
FolderIds == { "None", "folder123" }

StoredFile(i, n, p, t) ==
    [id |-> i, name |-> n, parent |-> p, trashed |-> t, mimeType |-> "application/pdf"]

\* what the Drive holds when the client is first called
InitialStores ==
    { << >>,
      << StoredFile(1, "syllabus.pdf", "folder123", FALSE) >>,
      << StoredFile(1, "syllabus.pdf", "other", FALSE),
         StoredFile(2, "syllabus.pdf", "folder123", TRUE) >>,
      << StoredFile(1, "notes.pdf", "root", FALSE),
         StoredFile(2, "syllabus.pdf", "folder123", FALSE),
         StoredFile(3, "syllabus.pdf", "folder123", FALSE) >> }

\* drive_client.py:80, 198  "if folder_id:"
Truthy(folder_id) == folder_id # "None" /\ folder_id # ""

\* a variant whose query leaves out the name
MatchesQueryAnyName(f, filename, folder_id) ==
    /\ ~f.trashed
    /\ Truthy(folder_id) => f.parent = folder_id

\* a variant whose query asks for trashed=true
MatchesQueryTrashed(f, filename, folder_id) ==
    /\ f.name = filename
    /\ f.trashed
    /\ Truthy(folder_id) => f.parent = folder_id

\* drive_client.py:79-81: the files the query selects
MatchesQuery(f, filename, folder_id) ==
    /\ f.name = filename
    /\ ~f.trashed
    /\ Truthy(folder_id) => f.parent = folder_id

\* fields='files(id, name, mimeType, size, createdTime)'
Entry(f) == [id |-> f.id, name |-> f.name, mimeType |-> f.mimeType]

\* drive_client.py:83-89: results.get('files', []) of a list call that succeeds
RECURSIVE ListFiles(_, _, _)
ListFiles(st, filename, folder_id) ==
    IF st = << >> THEN << >>
    ELSE (IF MatchesQuery(st[1], filename, folder_id) THEN << Entry(st[1]) >> ELSE << >>)
         \o ListFiles(Tail(st), filename, folder_id)

\* a variant that takes the last match
PickMatchLast(files) == files[Len(files)]

\* drive_client.py:91  existing_file = files[0]
PickMatch(files) == files[1]

\* a variant that lets the backend error reach the caller
OnListErrorRaise == [ret |-> NoFile, raised |-> TRUE]

\* drive_client.py:97-103: both handlers return None
OnListError == [ret |-> NoFile, raised |-> FALSE]

\* drive_client.py:77-103  file_exists; list is how files().list().execute() ends
FileExists(st, filename, folder_id, list) ==
    IF list # "ok"
    THEN [ret |-> OnListError.ret, raised |-> OnListError.raised, listed |-> << >>,
          log |-> << "files.list" >>]
    ELSE LET files == ListFiles(st, filename, folder_id)
         IN  [ret |-> IF files # << >> THEN PickMatch(files) ELSE NoFile,
              raised |-> FALSE, listed |-> files, log |-> << "files.list" >>]

\* a variant without the duplicate check
SkipUploadNever(existing_file) == FALSE

\* drive_client.py:192  "if existing_file:"
SkipUpload(existing_file) == existing_file # NoFile

\* drive_client.py:197-199: the file the backend stores for the create request
NewFile(nid, a) ==
    StoredFile(nid, a.filename, IF Truthy(a.folder_id) THEN a.folder_id ELSE "root", FALSE)

UploadResult(ret, st, nid, listed_, log) ==
    [ret |-> ret, raised |-> FALSE, store |-> st, next_id |-> nid, listed |-> listed_,
     log |-> log]

\* a variant that lets the backend error reach the caller of upload_file
OnUploadErrorRaise == [ret |-> 0, raised |-> TRUE]

\* drive_client.py:243-252: every handler returns None
OnUploadError == [ret |-> 0, raised |-> FALSE]

\* the upload request failed: nothing is stored
UploadFailed(st, nid, listed_, log) ==
    [UploadResult(OnUploadError.ret, st, nid, listed_, log)
        EXCEPT !.raised = OnUploadError.raised]

Repeat(x, n) == [i \in 1..n |-> x]

\* drive_client.py:186-252  upload_file
\*   a: the arguments; a.payload is "bytes" (file_content), "path" (file_path of a
\*      file), "missing_path" (file_path of no file) or "none" (neither given)
\*   e: the backend: e.list ends the list call, e.upload ends the upload,
\*      e.chunks is the number of next_chunk calls the upload takes, e.reexec is
\*      the answer to execute() on a request whose upload is already complete
UploadFile(st, nid, a, e) ==
    IF a.payload = "none"
    THEN UploadResult(0, st, nid, << >>, << >>)
    ELSE LET fe == FileExists(st, a.filename, a.folder_id, e.list)
         IN  IF fe.raised
             THEN UploadResult(0, st, nid, fe.listed, fe.log)
             ELSE IF SkipUpload(fe.ret)
             THEN UploadResult(fe.ret.id, st, nid, fe.listed, fe.log)
             ELSE IF a.payload = "missing_path"
             THEN UploadResult(0, st, nid, fe.listed, fe.log)
             ELSE LET log1 == fe.log \o << "files.create" >>
                      st1  == Append(st, NewFile(nid, a))
                  IN  IF a.progress_callback
                      THEN LET logc == log1 \o Repeat("next_chunk", e.chunks)
                           IN  IF e.upload # "ok"
                               THEN UploadFailed(st, nid, fe.listed, logc)
                               ELSE IF e.reexec = "same"
                               THEN UploadResult(nid, st1, nid + 1, fe.listed,
                                                 logc \o << "execute" >>)
                               ELSE UploadResult(0, st1, nid + 1, fe.listed,
                                                 logc \o << "execute" >>)
                      ELSE IF e.upload # "ok"
                           THEN UploadFailed(st, nid, fe.listed, log1 \o << "execute" >>)
                           ELSE UploadResult(nid, st1, nid + 1, fe.listed,
                                             log1 \o << "execute" >>)

ListOutcomes == { "ok", "HttpError", "Exception" }

UploadOutcomes == { "ok", "HttpError" }

ExistsArgs ==
    { [filename |-> n, folder_id |-> f, payload |-> "none", progress_callback |-> FALSE] :
        n \in FileNames, f \in FolderIds }

UploadArgs ==
    [filename : FileNames, folder_id : FolderIds,
     payload : { "bytes", "path", "missing_path", "none" }, progress_callback : BOOLEAN]

\* the backend behaviours that differ for a call with arguments a
UploadEnvs(a) ==
    { e \in [list : ListOutcomes, upload : UploadOutcomes, chunks : 0..MaxChunks,
             reexec : { "same", "HttpError" }] :
        /\ a.progress_callback => e.chunks >= 1
        /\ ~a.progress_callback => (e.chunks = 0 /\ e.reexec = "same")
        /\ e.upload # "ok" => e.reexec = "same" }

file_exists ==
    \E a \in ExistsArgs, l \in ListOutcomes :
        LET fe == FileExists(store, a.filename, a.folder_id, l)
        IN  /\ d_op = "none"
            /\ d_op' = "file_exists"
            /\ d_args' = a
            /\ d_env' = [NoEnv EXCEPT !.list = l]
            /\ listed' = fe.listed
            /\ exists_ret' = fe.ret
            /\ exists_raised' = fe.raised
            /\ drive_log' = fe.log
            /\ store_before' = store
            /\ UNCHANGED << store, next_id, upload_ret, upload_raised >>

upload_file ==
    \E a \in UploadArgs :
        \E e \in UploadEnvs(a) :
            LET u == UploadFile(store, next_id, a, e)
            IN  /\ d_op = "none"
                /\ u.store # store => Len(u.store) <= MaxStore
                /\ d_op' = "upload_file"
                /\ d_args' = a
                /\ d_env' = e
                /\ listed' = u.listed
                /\ upload_ret' = u.ret
                /\ upload_raised' = u.raised
                /\ drive_log' = u.log
                /\ store_before' = store
                /\ store' = u.store
                /\ next_id' = u.next_id
                /\ UNCHANGED << exists_ret, exists_raised >>

\* the caller has taken the result of the last call
DriveReturn ==
    /\ d_op # "none"
    /\ d_op' = "none"
    /\ d_args' = NoArgs
    /\ d_env' = NoEnv
    /\ listed' = << >>
    /\ exists_ret' = NoFile
    /\ exists_raised' = FALSE
    /\ upload_ret' = 0
    /\ upload_raised' = FALSE
    /\ drive_log' = << >>
    /\ store_before' = store
    /\ UNCHANGED << store, next_id >>

DriveInit ==
    /\ CanvasInit
    /\ RestIdle
    /\ ScanIdle
    /\ XferIdle
    /\ store \in InitialStores
    /\ next_id = Len(store) + 1
    /\ store_before = store
    /\ DriveCallIdle

DriveNext ==
    \/ file_exists /\ UNCHANGED << canvasVars, scanVars, xferVars, served, folderVars >>
    \/ upload_file /\ UNCHANGED << canvasVars, scanVars, xferVars, served, folderVars >>
    \/ DriveReturn /\ UNCHANGED << canvasVars, scanVars, xferVars, served, folderVars >>

SpecDrive == DriveInit /\ [][DriveNext]_vars

-----------------------------------------------------------------------------
(* GoogleDriveClient.get_folder_id over the Drive backend.  The backend's  *)
(* folders are kept apart from its other files: the folder query selects   *)
(* by the folder MIME type, and no file here has the name of a folder.     *)

\* the most get_folder_id calls made on one Drive
MaxResolves == 2

\* drive_client.py:105  folder_name: str = "UniMelb-2025-S2"
DefaultFolderName == "UniMelb-2025-S2"

\* parent_id arguments; "None" is Python's None
ParentIds == { "None", "parent9" }

StoredFolder(i, n, p, t) == [id |-> i, name |-> n, parent |-> p, trashed |-> t]

\* the folders the Drive holds when the client is first called
InitialFolders ==
    { << >>,
      << StoredFolder("folder123", DefaultFolderName, "root", FALSE) >>,
      << StoredFolder("trash1", DefaultFolderName, "root", TRUE),
         StoredFolder("sub7", DefaultFolderName, "parent9", FALSE),
         StoredFolder("folder123", DefaultFolderName, "root", FALSE) >>,
      << StoredFolder("arch5", "Archive", "root", FALSE) >> }

\* a variant whose query leaves out trashed = false
FolderMatchesQueryTrashedToo(f, folder_name, parent_id) ==
    /\ f.name = folder_name
    /\ Truthy(parent_id) => f.parent = parent_id

\* drive_client.py:117-119: the folders the query selects
FolderMatchesQuery(f, folder_name, parent_id) ==
    /\ f.name = folder_name
    /\ ~f.trashed
    /\ Truthy(parent_id) => f.parent = parent_id

\* fields='files(id, name)'
FolderEntry(f) == [id |-> f.id, name |-> f.name]

\* drive_client.py:120-126: results.get('files', []) of a list call that succeeds
RECURSIVE ListFolders(_, _, _)
ListFolders(fs, folder_name, parent_id) ==
    IF fs = << >> THEN << >>
    ELSE (IF FolderMatchesQuery(fs[1], folder_name, parent_id)
          THEN << FolderEntry(fs[1]) >> ELSE << >>)
         \o ListFolders(Tail(fs), folder_name, parent_id)

\* the id the backend gives the folder it creates as its n-th
NewFolderId(n) ==
    IF n = 1 THEN "new1" ELSE IF n = 2 THEN "new2" ELSE IF n = 3 THEN "new3"
    ELSE IF n = 4 THEN "new4" ELSE IF n = 5 THEN "new5" ELSE IF n = 6 THEN "new6"
    ELSE "new7"

\* drive_client.py:135-140: the folder the backend stores for the create request
NewFolder(fid, folder_name, parent_id) ==
    StoredFolder(fid, folder_name, IF Truthy(parent_id) THEN parent_id ELSE "root", FALSE)

\* a variant that lets the backend error reach the caller
OnFolderErrorRaise == [ret |-> "None", raised |-> TRUE]

\* drive_client.py:151-157: both handlers return None
OnFolderError == [ret |-> "None", raised |-> FALSE]

\* drive_client.py:115-157  get_folder_id; list and create are how the backend
\* ends files().list().execute() and files().create().execute()
GetFolderId(fs, folder_name, parent_id, list, create) ==
    IF list # "ok"
    THEN [ret |-> OnFolderError.ret, raised |-> OnFolderError.raised, folders |-> fs,
          listed |-> << >>, log |-> << "files.list" >>]
    ELSE LET files == ListFolders(fs, folder_name, parent_id)
         IN  IF files # << >>
             THEN [ret |-> files[1].id, raised |-> FALSE, folders |-> fs, listed |-> files,
                   log |-> << "files.list" >>]
             ELSE IF create # "ok"
             THEN [ret |-> OnFolderError.ret, raised |-> OnFolderError.raised, folders |-> fs,
                   listed |-> files, log |-> << "files.list", "files.create" >>]
             ELSE LET fid == NewFolderId(Len(fs) + 1)
                  IN  [ret |-> fid, raised |-> FALSE,
                       folders |-> Append(fs, NewFolder(fid, folder_name, parent_id)),
                       listed |-> files, log |-> << "files.list", "files.create" >>]

\* the record of one get_folder_id call
FolderCall(folder_name, parent_id, list, create, before, g) ==
    [folder_name |-> folder_name, parent_id |-> parent_id, list |-> list, create |-> create,
     before |-> before, after |-> g.folders, ret |-> g.ret, raised |-> g.raised,
     log |-> g.log]

\* simple_demo.py:59  target_folder_id = drive_client.get_folder_id(...): the
\* call is made and its result kept as the destination folder
get_folder_id ==
    \E p \in ParentIds, l \in ListOutcomes, c \in UploadOutcomes :
        LET g == GetFolderId(folders, DefaultFolderName, p, l, c)
        IN  /\ d_op = "none"
            /\ Len(folder_calls) < MaxResolves
            /\ l # "ok" => c = "ok"
            /\ d_op' = "get_folder_id"
            /\ d_args' = [NoArgs EXCEPT !.filename = DefaultFolderName, !.folder_id = p]
            /\ d_env' = [NoEnv EXCEPT !.list = l, !.upload = c]
            /\ drive_log' = g.log
            /\ folders' = g.folders
            /\ folder_calls' = Append(folder_calls,
                                      FolderCall(DefaultFolderName, p, l, c, folders, g))
            /\ target_folder_id' = g.ret
            /\ store_before' = store
            /\ UNCHANGED << store, next_id, listed, exists_ret, exists_raised, upload_ret,
                            upload_raised >>

\* simple_demo.py:135: main checks a title against the destination folder
FolderCheck ==
    \E n \in FileNames, l \in ListOutcomes :
        LET fe == FileExists(store, n, target_folder_id, l)
        IN  /\ d_op = "none" /\ folder_calls # << >>
            /\ d_op' = "file_exists"
            /\ d_args' = [NoArgs EXCEPT !.filename = n, !.folder_id = target_folder_id]
            /\ d_env' = [NoEnv EXCEPT !.list = l]
            /\ listed' = fe.listed
            /\ exists_ret' = fe.ret
            /\ exists_raised' = fe.raised
            /\ drive_log' = fe.log
            /\ store_before' = store
            /\ UNCHANGED << store, next_id, upload_ret, upload_raised, target_folder_id,
                            folderVars >>


-----------------------------------------------------------------------------
(* Properties of the existence check and of the upload *)

Count(log, x) == Cardinality({ i \in 1..Len(log) : log[i] = x })

\* the non-trashed files named n in the destination (the Drive root for "None")
InDestination(st, n, folder_id) ==
    { i \in 1..Len(st) :
        /\ st[i].name = n /\ ~st[i].trashed
        /\ st[i].parent = (IF folder_id = "None" THEN "root" ELSE folder_id) }

\* C7: file_exists returns None when the backend's list is empty and the first
\* entry of the backend's list, as listed, when it is not.
C7_FirstListedOrNone ==
    (d_op = "file_exists" /\ d_env.list = "ok")
    => /\ listed = << >> => exists_ret = NoFile
       /\ listed # << >> => exists_ret = listed[1]

C7_Witness ==
    /\ d_op = "file_exists" /\ d_env.list = "ok"
    /\ Len(listed) = 2 /\ listed[1] # listed[2]
    /\ exists_ret = listed[1]

\* C8: a backend error while listing is caught in file_exists and reported as
\* None; file_exists never raises, and upload_file given a payload it can read
\* goes on to create the file, also when a file of that name is in the folder.
C8_ExistenceCheckFailsOpen ==
    /\ d_op = "file_exists" => ~exists_raised
    /\ (d_op = "file_exists" /\ d_env.list # "ok") => exists_ret = NoFile
    /\ (d_op = "upload_file" /\ d_env.list # "ok" /\ d_args.payload \in {"bytes", "path"})
       => Count(drive_log, "files.create") = 1

C8_Witness ==
    /\ d_op = "upload_file" /\ d_env.list = "HttpError" /\ d_env.upload = "ok"
    /\ d_args.payload = "bytes" /\ ~d_args.progress_callback
    /\ InDestination(store_before, d_args.filename, d_args.folder_id) # {}
    /\ Len(store) = Len(store_before) + 1
    /\ upload_ret = store[Len(store)].id

\* C9 as stated: when a file of the given name is in the destination folder,
\* upload_file (given bytes or a path) returns the id of such a file and the
\* backend's create is not invoked.
C9_ExistingNeverCreated ==
    (d_op = "upload_file" /\ d_args.payload # "none"
        /\ InDestination(store_before, d_args.filename, d_args.folder_id) # {})
    => /\ \E i \in InDestination(store_before, d_args.filename, d_args.folder_id) :
              upload_ret = store_before[i].id
       /\ Count(drive_log, "files.create") = 0

\* C9 amended: when the existence check finds a file (the backend's list call
\* succeeds and lists at least one match), upload_file (given bytes or a path)
\* returns the id of the first file listed, the backend's create is not invoked
\* and nothing is stored.
C9_FoundNeverCreated ==
    (d_op = "upload_file" /\ d_args.payload # "none" /\ d_env.list = "ok"
        /\ ListFiles(store_before, d_args.filename, d_args.folder_id) # << >>)
    => /\ upload_ret = ListFiles(store_before, d_args.filename, d_args.folder_id)[1].id
       /\ drive_log = << "files.list" >>
       /\ store = store_before

C9_Witness ==
    /\ d_op = "upload_file" /\ d_args.payload = "path" /\ d_env.list = "ok"
    /\ d_args.filename = "syllabus.pdf" /\ d_args.folder_id = "folder123"
    /\ Len(ListFiles(store_before, "syllabus.pdf", "folder123")) = 2
    /\ upload_ret = 2
    /\ store = store_before

\* how many times the upload of the request was run to its end: a chunk loop
\* that returned a response, and every execute()
UploadRuns(log) ==
    Count(log, "execute") + (IF Count(log, "next_chunk") > 0 /\ Count(log, "execute") > 0
                             THEN 1 ELSE 0)

\* C10: when no file of the name exists and the backend reports no error,
\* upload_file (bytes or path, with or without progress callback) creates the
\* request once, runs the upload exactly once and returns the new file's id.
C10_UploadsExactlyOnce ==
    (d_op = "upload_file" /\ d_args.payload \in {"bytes", "path"}
        /\ d_env.list = "ok" /\ d_env.upload = "ok" /\ d_env.reexec = "same"
        /\ ListFiles(store_before, d_args.filename, d_args.folder_id) = << >>)
    => /\ Count(drive_log, "files.create") = 1
       /\ UploadRuns(drive_log) = 1
       /\ Len(store) = Len(store_before) + 1
       /\ upload_ret = store[Len(store)].id

-----------------------------------------------------------------------------
(* The transfer of one file: CanvasClient.get_file_content as main calls it, *)
(* with folder_id and the GoogleDriveClient given to the constructor.       *)
(* Resolve and download are canvas_client.py:245-274; the hand-over of the  *)
(* bytes to the GoogleDriveClient and the result record are not in that     *)
(* method and follow the Transfer Orchestrator's steps 3 and 4.             *)

FileGone == [type |-> "File", title |-> "old.pdf", content_id |-> 999]

FileLocked == [type |-> "File", title |-> "locked.pdf", content_id |-> 3]

\* a later module that links syllabus.pdf again
OneModule == << [id |-> "m1", name |-> "Week 4", items |-> << FileA >>] >>

LockedModule == << [id |-> "m1", name |-> "Exam", items |-> << FileLocked >>] >>

GoneModule == << [id |-> "m1", name |-> "Archive", items |-> << FileGone, FileA >>] >>

\* f"{file_id}"; -1 is the None of an item without content_id
Str(i) ==
    IF i = 1 THEN "1" ELSE IF i = 2 THEN "2" ELSE IF i = 3 THEN "3"
    ELSE IF i = 999 THEN "999" ELSE "None"

\* canvas_client.py:245  what _get returned, as file_info
FileInfoOf(ret) ==
    IF ret.tag = "value" /\ ~ret.body.isList THEN ret.body.items[1] ELSE NoInfo

\* a variant that falls back to the files download path when there is no metadata
DownloadUrlFallback(info) ==
    IF info = NoInfo THEN << "https://canvas/files/", "1", "/download" >>
    ELSE DictGet(info, "url", << >>)

\* canvas_client.py:246  file_info and (download_url := file_info.get("url"))
DownloadUrl(info) == IF info = NoInfo THEN << >> ELSE DictGet(info, "url", << >>)

\* a variant that takes the body of any response as the file's bytes
DownloadOutcomeAnyStatus(r) == IF r.kind = "ClientError" THEN "None" ELSE "bytes"

\* canvas_client.py:247-268: what the download GET leaves get_file_content with:
\* the bytes on 200; a warning and None on another status or a ClientError
DownloadOutcome(r) ==
    IF r.kind = "ClientError" THEN "None"
    ELSE IF r.status = 200 THEN "bytes"
    ELSE "None"

\* the bytes read from a 200 download response
BytesOf(r) == IF r.body.items = << >> THEN 0 ELSE DictGet(r.body.items[1], "bytes", 0)

\* what the transfer call leaves main with: a result record, None or an exception
NoResult ==
    [canvas_file_id |-> "", filename |-> "", size |-> 0, destination_id |-> 0,
     upload_success |-> FALSE, duplicate_skipped |-> FALSE]

Raised == [kind |-> "raised", result |-> NoResult]

ReturnedNone == [kind |-> "None", result |-> NoResult]

Returned(res) == [kind |-> "result", result |-> res]

TransferResult(info, size, dest, ok, dup) ==
    [canvas_file_id |-> info.id, filename |-> info.display_name, size |-> size,
     destination_id |-> dest, upload_success |-> ok, duplicate_skipped |-> dup]

\* the upload_file call of a transfer: the bytes, no progress callback
TransferArgs(info, folder_id) ==
    [filename |-> info.display_name, folder_id |-> folder_id, payload |-> "bytes",
     progress_callback |-> FALSE]

NoUpload(st, nid) == UploadResult(0, st, nid, << >>, << >>)

\* steps 3 and 4 of a transfer: the existence check and, when it finds nothing,
\* the upload; l ends the list call of the check, e is the backend during upload_file
TransferUpload(st, nid, info, size, folder_id, l, e) ==
    LET fe == FileExists(st, info.display_name, folder_id, l)
    IN  IF fe.ret # NoFile
        THEN [outcome |-> Returned(TransferResult(info, size, fe.ret.id, TRUE, TRUE)),
              exists |-> fe, uploaded |-> FALSE, upload |-> NoUpload(st, nid)]
        ELSE LET u == UploadFile(st, nid, TransferArgs(info, folder_id), e)
             IN  [outcome |-> IF u.raised THEN Raised
                              ELSE Returned(TransferResult(info, size, u.ret, u.ret # 0,
                                                           FALSE)),
                  exists |-> fe, uploaded |-> TRUE, upload |-> u]

\* a variant whose loop counts an exception of the transfer call and stops
AfterFailureStop(i, n) == n + 1

\* simple_demo.py:156, 190-192: the position the loop goes to after a file
AfterFailure(i, n) == i + 1

\* simple_demo.py:170-192: the tally the loop adds one to
\* a variant that counts nothing when the transfer returned None
TallyIgnoresNone(o) ==
    IF o.kind = "raised" THEN "failed"
    ELSE IF o.kind = "None" THEN "nothing"
    ELSE IF o.result.upload_success
    THEN (IF o.result.duplicate_skipped THEN "skipped" ELSE "successful")
    ELSE "failed"

Tally(o) ==
    IF o.kind = "raised" THEN "failed"
    ELSE IF o.kind = "result" /\ o.result.upload_success
    THEN (IF o.result.duplicate_skipped THEN "skipped" ELSE "successful")
    ELSE "failed"

-----------------------------------------------------------------------------
(* simple_demo.py main, steps 5 to 7: the transfer loop over all_files_found *)

Ev(i, s) == [file |-> i, step |-> s]

Plus(n, b) == IF b THEN n + 1 ELSE n

\* simple_demo.py:170-192: the outcome o of the transfer call is tallied and the
\* loop goes on; log is x_log with the steps of the call
LoopTally(o, log) ==
    /\ x_results' = Append(x_results, [file |-> x_idx, outcome |-> o])
    /\ successful_transfers' = Plus(successful_transfers, Tally(o) = "successful")
    /\ skipped_duplicates' = Plus(skipped_duplicates, Tally(o) = "skipped")
    /\ failed_transfers' = Plus(failed_transfers, Tally(o) = "failed")
    /\ x_idx' = IF Tally(o) = "failed"
                THEN AfterFailure(x_idx, Len(all_files_found))
                ELSE x_idx + 1
    /\ x_log' = Append(log, Ev(x_idx, "terminal"))
    /\ x_pc' = "loop"

\* a variant that starts the transfers as soon as a course has been scanned
ScanFinishedAfterCourse == scan_pc \in {"done", "next_course"}

\* simple_demo.py:68-124: the course loop has been left
ScanFinished == scan_pc = "done"

\* simple_demo.py:124-156: main returns when nothing was found; otherwise
\* file_exists is called for the first three titles, a new ClientSession is
\* opened and the loop is entered (the locals of the course loop are dead)
StartTransfer ==
    /\ ScanFinished /\ x_pc = "idle"
    /\ IF all_files_found = << >>
       THEN /\ x_pc' = "returned"
            /\ UNCHANGED << canvasVars, driveVars, x_idx, x_run, x_log, list_failed,
                            course_name, modules, module_idx, course_files >>
       ELSE \E l \in ListOutcomes :
            LET n  == Min(3, Len(all_files_found))
                fe == FileExists(store, all_files_found[n].title, target_folder_id, l)
            IN  /\ d_op' = "file_exists"
                /\ d_args' = [NoArgs EXCEPT !.filename = all_files_found[n].title,
                                            !.folder_id = target_folder_id]
                /\ d_env' = [NoEnv EXCEPT !.list = l]
                /\ listed' = fe.listed
                /\ exists_ret' = fe.ret
                /\ exists_raised' = fe.raised
                /\ drive_log' = fe.log
                /\ store_before' = store
                /\ UNCHANGED << store, next_id, upload_ret, upload_raised >>
                /\ list_failed' = (list_failed \/ l # "ok")
                /\ x_log' = [i \in 1..n |-> Ev(i, "check")]
                /\ x_run' = 1
                /\ x_idx' = 1
                /\ x_pc' = "loop"
                /\ op' = "none"
                /\ pc' = "idle"
                /\ endpoint' = << >>
                /\ url' = << >>
                /\ all_results' = << >>
                /\ requests' = << >>
                /\ responses' = << >>
                /\ retval' = NoneVal
                /\ err' = -1
                /\ course_name' = << >>
                /\ modules' = << >>
                /\ module_idx' = 0
                /\ course_files' = << >>
    /\ UNCHANGED << lms, scan_pc, course_idx, all_files_found, scan_ok, target_folder_id,
                    file_info, x_results, successful_transfers, failed_transfers,
                    skipped_duplicates, store_first, store_run1, ok_run1 >>
    /\ UNCHANGED << served, folderVars >>

Succeeded == { i \in 1..Len(x_results) : Tally(x_results[i].outcome) # "failed" }

\* simple_demo.py:156-168: the next descriptor is taken and get_file_content
\* issues the metadata GET; after the last descriptor the loop ends
TransferNext ==
    /\ x_pc = "loop"
    /\ IF x_idx <= Len(all_files_found)
       THEN /\ GetStart(FilesEndpoint(Str(all_files_found[x_idx].content_id)))
            /\ x_pc' = "resolve"
            /\ x_log' = Append(x_log, Ev(x_idx, "resolve"))
            /\ UNCHANGED << store_run1, ok_run1 >>
       ELSE /\ x_pc' = "summary"
            /\ store_run1' = IF x_run = 1 THEN store ELSE store_run1
            /\ ok_run1' = IF x_run = 1 THEN Succeeded ELSE ok_run1
            /\ UNCHANGED << canvasVars, x_log >>
    /\ file_info' = NoInfo
    /\ d_op' = "none"
    /\ d_args' = NoArgs
    /\ d_env' = NoEnv
    /\ listed' = << >>
    /\ exists_ret' = NoFile
    /\ exists_raised' = FALSE
    /\ upload_ret' = 0
    /\ upload_raised' = FALSE
    /\ drive_log' = << >>
    /\ store_before' = store
    /\ UNCHANGED << scanVars, store, next_id, target_folder_id, x_idx, x_run, x_results,
                    successful_transfers, failed_transfers, skipped_duplicates,
                    list_failed, store_first >>
    /\ UNCHANGED << served, folderVars >>

\* a variant that goes on without awaiting the call
AwaitedNever(p) == TRUE

\* canvas_client.py:245  "await self._get(...)": the call has ended
Awaited(p) == p \in {"returned", "raised"}

\* canvas_client.py:245-248: _get has ended; without metadata or url the call
\* returns None, an error of _get leaves the call, otherwise the download GET is issued
TransferResolved ==
    /\ x_pc = "resolve" /\ op = "_get" /\ Awaited(pc)
    /\ LET info == FileInfoOf(retval)
       IN  IF pc = "raised"
           THEN /\ LoopTally(Raised, x_log)
                /\ UNCHANGED << canvasVars, file_info >>
           ELSE IF DownloadUrl(info) = << >>
           THEN /\ LoopTally(ReturnedNone, x_log)
                /\ file_info' = info
                /\ UNCHANGED canvasVars
           ELSE /\ op' = "get_file_content"
                /\ pc' = "await"
                /\ requests' = Append(requests, DownloadUrl(info))
                /\ file_info' = info
                /\ x_pc' = "download"
                /\ x_log' = Append(x_log, Ev(x_idx, "download"))
                /\ UNCHANGED << endpoint, url, all_results, responses, retval, err, x_idx,
                                x_results, successful_transfers, failed_transfers,
                                skipped_duplicates >>
    /\ UNCHANGED << scanVars, driveVars, target_folder_id, x_run, list_failed, store_first,
                    store_run1, ok_run1 >>
    /\ UNCHANGED << served, folderVars >>

\* the backend calls of one GoogleDriveClient call, as steps of file i
Evs(i, log) == [k \in 1..Len(log) |-> Ev(i, log[k])]

\* canvas_client.py:247-274 and steps 3 and 4 of the transfer: the download GET
\* is answered by r; without the bytes the call returns None, with them the
\* existence check and the upload follow and the call returns its result record
TransferDownloaded(r, l, e) ==
    /\ x_pc = "download" /\ pc = "await"
    /\ responses' = Append(responses, r)
    /\ pc' = "returned"
    /\ UNCHANGED << op, endpoint, url, all_results, requests, retval, err >>
    /\ IF DownloadOutcome(r) = "None"
       THEN /\ l = "ok" /\ e = NoEnv
            /\ LoopTally(ReturnedNone, x_log)
            /\ UNCHANGED << driveVars, list_failed >>
       ELSE LET t == TransferUpload(store, next_id, file_info, BytesOf(r),
                                    target_folder_id, l, e)
                log == x_log \o << Ev(x_idx, "file_exists") >> \o Evs(x_idx, t.exists.log)
                             \o (IF t.uploaded
                                 THEN << Ev(x_idx, "upload_file") >> \o Evs(x_idx, t.upload.log)
                                 ELSE << >>)
            IN  /\ ~t.uploaded => e = NoEnv
                /\ t.upload.store # store => Len(t.upload.store) <= MaxStore
                /\ store' = t.upload.store
                /\ next_id' = t.upload.next_id
                /\ store_before' = store
                /\ d_op' = IF t.uploaded THEN "upload_file" ELSE "file_exists"
                /\ d_args' = IF t.uploaded
                             THEN TransferArgs(file_info, target_folder_id)
                             ELSE [NoArgs EXCEPT !.filename = file_info.display_name,
                                                 !.folder_id = target_folder_id]
                /\ d_env' = IF t.uploaded THEN e ELSE [NoEnv EXCEPT !.list = l]
                /\ listed' = IF t.uploaded THEN t.upload.listed ELSE t.exists.listed
                /\ exists_ret' = t.exists.ret
                /\ exists_raised' = t.exists.raised
                /\ upload_ret' = t.upload.ret
                /\ upload_raised' = t.upload.raised
                /\ drive_log' = IF t.uploaded THEN t.upload.log ELSE t.exists.log
                /\ list_failed' = (list_failed \/ l # "ok" \/ (t.uploaded /\ e.list # "ok"))
                /\ LoopTally(t.outcome, log)
    /\ UNCHANGED << scanVars, target_folder_id, x_run, file_info, store_first, store_run1,
                    ok_run1 >>
    /\ UNCHANGED << served, folderVars >>

\* the backends as a transfer can find them
TransferEnvs ==
    { e \in [list : ListOutcomes, upload : UploadOutcomes, chunks : {0}, reexec : {"same"}] :
        TRUE }

TransferDownloadResponse ==
    \E r \in ScanResponses, l \in ListOutcomes, e \in TransferEnvs : TransferDownloaded(r, l, e)

\* step 4 of a transfer: the bytes of a file are uploaded to the destination folder
FolderUpload ==
    \E n \in { "notes.pdf" }, e \in TransferEnvs :
        LET u == UploadFile(store, next_id, TransferArgs([display_name |-> n], target_folder_id), e)
        IN  /\ d_op = "none" /\ folder_calls # << >>
            /\ u.store # store => Len(u.store) <= MaxStore
            /\ d_op' = "upload_file"
            /\ d_args' = TransferArgs([display_name |-> n], target_folder_id)
            /\ d_env' = e
            /\ listed' = u.listed
            /\ upload_ret' = u.ret
            /\ upload_raised' = u.raised
            /\ drive_log' = u.log
            /\ store_before' = store
            /\ store' = u.store
            /\ next_id' = u.next_id
            /\ UNCHANGED << exists_ret, exists_raised, target_folder_id, folderVars >>

FolderInit ==
    /\ CanvasInit
    /\ ScanIdle
    /\ XferIdle
    /\ served = << >>
    /\ folders \in InitialFolders
    /\ folder_calls = << >>
    /\ store \in { << >>, << StoredFile(1, "notes.pdf", "other", FALSE) >> }
    /\ next_id = Len(store) + 1
    /\ store_before = store
    /\ DriveCallIdle

FolderNext ==
    \/ get_folder_id /\ UNCHANGED << canvasVars, scanVars, served, x_pc, x_idx, x_run,
                                     file_info, x_results, successful_transfers,
                                     failed_transfers, skipped_duplicates, x_log,
                                     list_failed, store_first, store_run1, ok_run1 >>
    \/ FolderCheck /\ UNCHANGED << canvasVars, scanVars, served, x_pc, x_idx, x_run,
                                   file_info, x_results, successful_transfers,
                                   failed_transfers, skipped_duplicates, x_log,
                                   list_failed, store_first, store_run1, ok_run1 >>
    \/ FolderUpload /\ UNCHANGED << canvasVars, scanVars, served, x_pc, x_idx, x_run,
                                    file_info, x_results, successful_transfers,
                                    failed_transfers, skipped_duplicates, x_log,
                                    list_failed, store_first, store_run1, ok_run1 >>
    \/ DriveReturn /\ UNCHANGED << canvasVars, scanVars, xferVars, served, folderVars >>

SpecFolder == FolderInit /\ [][FolderNext]_vars

\* simple_demo.py:152-156: the transfer is started a second time over the same
\* descriptors, with a new ClientSession
Rerun ==
    /\ x_pc = "summary" /\ x_run = 1
    /\ x_run' = x_run + 1
    /\ x_idx' = 1
    /\ x_pc' = "loop"
    /\ x_results' = << >>
    /\ successful_transfers' = 0
    /\ failed_transfers' = 0
    /\ skipped_duplicates' = 0
    /\ x_log' = << >>
    /\ op' = "none"
    /\ pc' = "idle"
    /\ endpoint' = << >>
    /\ url' = << >>
    /\ all_results' = << >>
    /\ requests' = << >>
    /\ responses' = << >>
    /\ retval' = NoneVal
    /\ err' = -1
    /\ UNCHANGED << scanVars, driveVars, target_folder_id, file_info, list_failed,
                    store_first, store_run1, ok_run1 >>
    /\ UNCHANGED << served, folderVars >>

\* the courses of a run
RunLms ==
    { (COURSE_IDS[1] :> TwoModules) @@ (COURSE_IDS[2] :> NoModules)
          @@ (COURSE_IDS[3] :> NoModules),
      (COURSE_IDS[1] :> OneModule) @@ (COURSE_IDS[2] :> NoModules)
          @@ (COURSE_IDS[3] :> OneModule),
      (COURSE_IDS[1] :> GoneModule) @@ (COURSE_IDS[2] :> NoModules)
          @@ (COURSE_IDS[3] :> LockedModule) }

\* a second course that links one file from two of its modules
LinkedTwiceLms ==
    (COURSE_IDS[1] :> NoModules)
        @@ (COURSE_IDS[2] :> << [id |-> "m1", name |-> "Week 1", items |-> << FileA >>],
                                [id |-> "m2", name |-> "Week 2", items |-> << FileA >>] >>)
        @@ (COURSE_IDS[3] :> NoModules)

\* what the Drive holds when a run begins
RunStores ==
    { << >>,
      << StoredFile(1, "syllabus.pdf", "folder123", FALSE) >>,
      << StoredFile(1, "notes.pdf", "other", FALSE) >> }

TargetFolderIdNone(g) == "None"

\* simple_demo.py:59: what main keeps of the call as target_folder_id
TargetFolderId(g) == g.ret

\* simple_demo.py:59-63: main resolves the destination folder, with the
\* default name and no parent, and goes on whatever the call returned
ResolveFolder ==
    \E l \in UploadOutcomes, c \in UploadOutcomes :
        LET g == GetFolderId(folders, DefaultFolderName, "None", l, c)
        IN  /\ scan_pc = "folder"
            /\ l # "ok" => c = "ok"
            /\ ~g.raised
            /\ folders' = g.folders
            /\ folder_calls' = Append(folder_calls,
                                      FolderCall(DefaultFolderName, "None", l, c, folders, g))
            /\ target_folder_id' = TargetFolderId(g)
            /\ scan_pc' = "next_course"
            /\ UNCHANGED << canvasVars, driveVars, served, lms, course_idx, course_name,
                            modules, module_idx, course_files, all_files_found, scan_ok,
                            x_pc, x_idx, x_run, file_info, x_results, successful_transfers,
                            failed_transfers, skipped_duplicates, x_log, list_failed,
                            store_first, store_run1, ok_run1 >>

\* simple_demo.py:36-56: the clients are set up and the folder is about to be
\* resolved
RunInit ==
    /\ CanvasInit
    /\ served = << >>
    /\ folder_calls = << >>
    /\ lms \in RunLms \cup { LinkedTwiceLms }
    /\ scan_pc = "folder"
    /\ course_idx = 1
    /\ course_name = << >>
    /\ modules = << >>
    /\ module_idx = 0
    /\ course_files = << >>
    /\ all_files_found = << >>
    /\ scan_ok = << >>
    /\ store \in (IF lms = LinkedTwiceLms THEN { << >> } ELSE RunStores)
    /\ folders = (IF store = << >> THEN << >>
                  ELSE << StoredFolder("folder123", DefaultFolderName, "root", FALSE) >>)
    /\ next_id = Len(store) + 1
    /\ store_before = store
    /\ DriveCallIdle
    /\ target_folder_id = "None"
    /\ x_pc = "idle"
    /\ x_idx = 0
    /\ x_run = 0
    /\ file_info = NoInfo
    /\ x_results = << >>
    /\ successful_transfers = 0
    /\ failed_transfers = 0
    /\ skipped_duplicates = 0
    /\ x_log = << >>
    /\ list_failed = FALSE
    /\ store_first = store
    /\ store_run1 = << >>
    /\ ok_run1 = {}

RunNext ==
    \/ ResolveFolder
    \/ ScanCourse /\ UNCHANGED << driveVars, xferVars, served, folderVars >>
    \/ ScanGetResponse
    \/ ScanCourseInfo /\ UNCHANGED << driveVars, xferVars, served, folderVars >>
    \/ ScanPagResponse
    \/ ScanModules /\ UNCHANGED << driveVars, xferVars, served, folderVars >>
    \/ ScanItems /\ UNCHANGED << driveVars, xferVars, served, folderVars >>
    \/ StartTransfer
    \/ TransferNext
    \/ TransferResolved
    \/ TransferDownloadResponse
    \/ Rerun

SpecRun == RunInit /\ [][RunNext]_vars

-----------------------------------------------------------------------------
(* Properties of the transfer loop *)

\* at most one non-trashed file per name and parent folder
Unique(st) ==
    \A i, j \in 1..Len(st) :
        (i # j /\ ~st[i].trashed /\ ~st[j].trashed /\ st[i].name = st[j].name)
        => st[i].parent # st[j].parent

\* the transfer stored a new object
Created(o) == o.kind = "result" /\ o.result.upload_success /\ ~o.result.duplicate_skipped

IsExisting(f, res) ==
    /\ f.id = res.destination_id
    /\ f.name = res.filename
    /\ ~f.trashed
    /\ Truthy(target_folder_id) => f.parent = target_folder_id

\* C12: a result with duplicate_skipped has upload_success, its destination id
\* is the id of a stored file of that name that was there before the transfer,
\* and the transfer that produced it left the stored objects as they were.
C12_DuplicateSkippedIsExisting ==
    \A k \in 1..Len(x_results) :
        LET res == x_results[k].outcome.result
        IN  (x_results[k].outcome.kind = "result" /\ res.duplicate_skipped)
            => /\ res.upload_success
               /\ \E i \in 1..Len(store) : IsExisting(store[i], res)
               /\ (k = Len(x_results) /\ x_pc = "loop" /\ d_op # "none")
                  => /\ store = store_before
                     /\ \E i \in 1..Len(store_before) : IsExisting(store_before[i], res)
                     /\ Count(drive_log, "files.create") = 0

C12_Witness ==
    /\ x_pc = "loop" /\ d_op = "file_exists" /\ Len(x_results) = 2
    /\ Created(x_results[1].outcome)
    /\ x_results[2].outcome.kind = "result"
    /\ x_results[2].outcome.result.duplicate_skipped
    /\ x_results[2].outcome.result.destination_id = x_results[1].outcome.result.destination_id
    /\ store = store_before

\* the steps of the transfer of file i, in order (the checks of step 5 left out)
RECURSIVE StepsOf(_, _)
StepsOf(log, i) ==
    IF log = << >> THEN << >>
    ELSE (IF log[1].file = i /\ log[1].step # "check" THEN << log[1].step >> ELSE << >>)
         \o StepsOf(Tail(log), i)

Failures == { k \in 1..Len(x_results) : Tally(x_results[k].outcome) = "failed" }

\* the metadata GET of the current transfer was answered 404
MetadataNotFound ==
    /\ op = "_get" /\ Len(responses) = 1
    /\ responses[1].kind = "http" /\ responses[1].status = 404

\* C13: a download GET is outstanding only after the metadata fetch answered
\* 200 with a url; and when the metadata fetch of a file answered 404 its
\* transfer ends as a failure (no success is counted), with the metadata GET as
\* its only request and no existence query or upload made for it.
C13_NotFoundEndsTransfer ==
    /\ x_pc = "download"
       => /\ Len(responses) = 1 /\ Is200(responses[1])
          /\ requests[2] = DictGet(responses[1].body.items[1], "url", << >>)
          /\ requests[2] # << >>
    /\ (x_pc = "loop" /\ MetadataNotFound)
       => LET k == Len(x_results)
          IN  /\ k >= 1 /\ x_results[k].file = x_idx - 1
              /\ x_results[k].outcome = ReturnedNone
              /\ failed_transfers = Cardinality(Failures) /\ k \in Failures
              /\ successful_transfers + skipped_duplicates + failed_transfers = k
              /\ StepsOf(x_log, x_idx - 1) = << "resolve", "terminal" >>
              /\ Len(requests) = 1
              /\ d_op = "none" /\ store = store_before

C13_Witness ==
    /\ x_pc = "loop" /\ MetadataNotFound /\ pc = "returned"
    /\ x_idx = 2 /\ all_files_found[1].content_id = 999
    /\ failed_transfers = 1 /\ x_run = 1

\* the download GET of the current transfer has been answered, and not with 200
DownloadFailed ==
    /\ op = "get_file_content" /\ Len(responses) = 2 /\ ~Is200(responses[2])

\* C14: when the download GET is answered with another status than 200 or
\* fails in transport, the transfer call returns (None, no exception reaches
\* the loop), the file is counted as failed, and no existence query or upload
\* is made for it: resolve and download are its only steps.
C14_DownloadFailureEndsTransfer ==
    (x_pc = "loop" /\ DownloadFailed)
    => LET k == Len(x_results)
       IN  /\ k >= 1 /\ x_results[k].file = x_idx - 1
           /\ x_results[k].outcome.kind # "raised"
           /\ x_results[k].outcome = ReturnedNone
           /\ failed_transfers = Cardinality(Failures) /\ k \in Failures
           /\ StepsOf(x_log, x_idx - 1) = << "resolve", "download", "terminal" >>
           /\ Len(requests) = 2
           /\ d_op = "none" /\ store = store_before

C14_Witness ==
    /\ x_pc = "loop" /\ DownloadFailed /\ responses[2].kind = "ClientError"
    /\ Len(x_results) = 2 /\ Created(x_results[1].outcome)
    /\ failed_transfers = 1 /\ successful_transfers = 1

\* in s, every b comes after some a
Before(s, a, b) == \A j \in 1..Len(s) : s[j] = b => \E k \in 1..(j - 1) : s[k] = a

\* the transfer call that just ended called the GoogleDriveClient
DriveWasCalled == x_pc = "loop" /\ op = "get_file_content" /\ d_op # "none"

\* C15: in the steps of every transfer the metadata fetch comes first, the
\* download after it, the existence check after the download and every upload
\* request after an existence query; the GoogleDriveClient is called only
\* after the download answered 200; and when an existence check of the
\* transfer finds a file, no upload request is sent and nothing is stored.
C15_TransferStepOrder ==
    /\ \A i \in 1..Len(all_files_found) :
           LET s == StepsOf(x_log, i)
           IN  /\ s # << >> => s[1] = "resolve"
               /\ Before(s, "resolve", "download")
               /\ Before(s, "download", "file_exists")
               /\ Before(s, "file_exists", "upload_file")
               /\ Before(s, "files.list", "files.create")
               /\ Before(s, "files.create", "execute")
    /\ DriveWasCalled
       => /\ Len(responses) = 2 /\ Is200(responses[2])
          /\ (exists_ret # NoFile \/ listed # << >>)
             => /\ Count(StepsOf(x_log, x_idx - 1), "files.create") = 0
                /\ Count(StepsOf(x_log, x_idx - 1), "execute") = 0
                /\ store = store_before

C15_Witness ==
    /\ DriveWasCalled /\ x_run = 1 /\ Len(x_results) = 1
    /\ store_first # << >> /\ exists_ret = Entry(store_first[1])
    /\ StepsOf(x_log, 1) = << "resolve", "download", "file_exists", "files.list", "terminal" >>
    /\ store = store_first

\* the transfer call that just ended sent the upload and the backend rejected it
UploadRejected ==
    /\ DriveWasCalled /\ d_op = "upload_file" /\ d_env.upload # "ok"
    /\ Count(drive_log, "files.create") = 1

\* C16: when the backend rejects the upload, no exception leaves upload_file
\* (it returns None), the transfer returns a result record with
\* upload_success false that carries the file's name and the size of the
\* bytes downloaded, the file is counted as failed and nothing is stored.
C16_UploadErrorIsFailureRecord ==
    UploadRejected
    => LET o == x_results[Len(x_results)].outcome
       IN  /\ upload_ret = 0
           /\ o.kind = "result"
           /\ ~o.result.upload_success /\ ~o.result.duplicate_skipped
           /\ o.result.filename = file_info.display_name
           /\ o.result.size = BytesOf(responses[2])
           /\ o.result.size > 0
           /\ Tally(o) = "failed" /\ Len(x_results) \in Failures
           /\ failed_transfers = Cardinality(Failures)
           /\ store = store_before

C16_Witness ==
    /\ UploadRejected /\ d_env.list = "ok" /\ x_run = 1
    /\ Len(x_results) = 2 /\ Created(x_results[1].outcome)
    /\ x_results[2].outcome.result.filename = "notes.pdf"
    /\ x_results[2].outcome.result.size = 20
    /\ failed_transfers = 1

\* the outcomes that are not a success: an exception, None, a record without upload_success
NotSuccess ==
    { k \in 1..Len(x_results) :
        LET o == x_results[k].outcome
        IN  o.kind \in {"raised", "None"} \/ ~o.result.upload_success }

\* C17: the loop handles the descriptors one by one in list order, each once;
\* every outcome that is not a success (an exception of the transfer call, no
\* result, a result without upload_success) is counted as a failed transfer,
\* and whatever the outcomes the loop ends only after the last descriptor.
C17_FailureDoesNotAbortRun ==
    x_run >= 1
    => /\ \A k \in 1..Len(x_results) : x_results[k].file = k
       /\ Len(x_results) <= Len(all_files_found)
       /\ x_pc \in {"loop", "resolve", "download"} => x_idx = Len(x_results) + 1
       /\ x_pc = "summary" => Len(x_results) = Len(all_files_found)
       /\ failed_transfers = Cardinality(NotSuccess)
       /\ successful_transfers + skipped_duplicates + failed_transfers = Len(x_results)

C17_Witness ==
    /\ x_pc = "summary" /\ Len(all_files_found) = 3
    /\ x_results[1].outcome = Raised
    /\ Created(x_results[2].outcome)
    /\ x_results[3].outcome = ReturnedNone
    /\ failed_transfers = 2 /\ successful_transfers = 1

\* the steps of the loop, the checks of step 5 left out
RECURSIVE LoopSteps(_)
LoopSteps(log) ==
    IF log = << >> THEN << >>
    ELSE (IF log[1].step # "check" THEN << log[1] >> ELSE << >>) \o LoopSteps(Tail(log))

\* C18: the steps of the run are those of file 1, then those of file 2, and so
\* on: a file's first step is its metadata fetch for its content_id, it comes
\* only after the terminal outcome of the file before it, and no step of a
\* file follows its terminal outcome.  At most one GET is outstanding at any
\* moment, none between two files, and the GoogleDriveClient is not called
\* while one is.
C18_OneFileAtATime ==
    /\ Len(requests) = Len(responses) + (IF pc = "await" THEN 1 ELSE 0)
    /\ (pc = "await" /\ x_run >= 1) => x_pc \in {"resolve", "download"}
    /\ pc = "await" => d_op = "none"
    /\ x_pc = "resolve"
       => requests[1] = api_url \o FilesEndpoint(Str(all_files_found[x_idx].content_id))
    /\ LET s == LoopSteps(x_log)
       IN  \A k \in 1..Len(s) :
               /\ k = 1 => s[k] = Ev(1, "resolve")
               /\ k > 1 =>
                    IF s[k - 1].step = "terminal"
                    THEN s[k] = Ev(s[k - 1].file + 1, "resolve")
                    ELSE s[k].file = s[k - 1].file /\ s[k].step # "resolve"

C18_Witness ==
    /\ x_pc = "download" /\ pc = "await" /\ x_idx = 2
    /\ Len(requests) = 2 /\ Len(responses) = 1
    /\ Len(x_results) = 1 /\ Created(x_results[1].outcome)
    /\ LoopSteps(x_log)[Len(LoopSteps(x_log)) - 2] = Ev(1, "terminal")

CourseIndex(c) == CHOOSE i \in 1..Len(COURSE_IDS) : COURSE_IDS[i] = c

Scanning == scan_pc \in {"course_info", "modules", "items"}

\* C19 as stated: when a module or item request of a course is issued, every
\* file found in the courses before it has been transferred.
C19_CourseTransferredBeforeNextScan ==
    (scan_pc \in {"modules", "items"} /\ course_idx > 1)
    => \A i \in 1..Len(all_files_found) : i <= Len(x_results)

\* C19 amended: the courses are scanned one after the other in the order of
\* COURSE_IDS (every request of the scan is for the current course, the files
\* found so far are of earlier courses); no transfer step is taken before the
\* scan of the last course has ended; and the files are transferred in
\* discovery order, those of a course before those of every later course.
C19_ScanAllThenTransferInCourseOrder ==
    /\ Scanning
       => /\ endpoint[2] = CurrentCourse
          /\ \A i \in 1..Len(all_files_found) :
                 CourseIndex(all_files_found[i].course_id) < course_idx
          /\ scan_pc # "course_info"
             => \A i \in 1..Len(course_files) : course_files[i].course_id = CurrentCourse
    /\ (x_pc # "idle" \/ x_log # << >> \/ x_results # << >>)
       => (scan_pc = "done" /\ course_idx = Len(COURSE_IDS) + 1)
    /\ \A j, k \in 1..Len(all_files_found) :
           j < k => CourseIndex(all_files_found[j].course_id)
                        <= CourseIndex(all_files_found[k].course_id)
    /\ \A k \in 1..Len(x_results) : x_results[k].file = k

C19_Witness ==
    /\ x_pc = "summary" /\ x_run = 1 /\ Len(all_files_found) = 2
    /\ all_files_found[1].course_id = COURSE_IDS[1]
    /\ all_files_found[2].course_id = COURSE_IDS[3]
    /\ Created(x_results[1].outcome)
    /\ x_results[2].outcome.kind = "result" /\ x_results[2].outcome.result.duplicate_skipped

-----------------------------------------------------------------------------
(* The course scan when a fetch fails *)

Range(q) == { q[i] : i \in 1..Len(q) }

\* the scan of the course before the current one has just ended with an exception
ScanJustRaised == scan_pc = "next_course" /\ op = "_get_paginated" /\ pc = "raised"

\* C20: when the fetch of a course's modules or of a module's items raises,
\* the loop goes on to the next course and that course is not among the
\* scanned ones; no descriptor of a course whose scan raised is in
\* all_files_found, also when files of it had been found in earlier modules;
\* the descriptors of the courses scanned without error are all there; and the
\* loop ends only after the last course.
C20_FailedCourseScanIsDropped ==
    scan_pc # "idle"
    => /\ ScanJustRaised
          => /\ course_idx >= 2 /\ course_idx <= Len(COURSE_IDS) + 1
             /\ COURSE_IDS[course_idx - 1] \notin Range(scan_ok)
       /\ \A i \in 1..Len(COURSE_IDS) :
              (i < course_idx /\ COURSE_IDS[i] \notin Range(scan_ok))
              => \A k \in 1..Len(all_files_found) :
                     all_files_found[k].course_id # COURSE_IDS[i]
       /\ Descriptors(all_files_found) = FilesOfCourses(scan_ok)
       /\ \A i \in 1..Len(scan_ok) : CourseIndex(scan_ok[i]) < course_idx
       /\ scan_pc = "done" => course_idx = Len(COURSE_IDS) + 1

C20_Witness ==
    /\ scan_pc = "course_info" /\ course_idx = 3 /\ pc = "await"
    /\ scan_ok = << COURSE_IDS[1] >>
    /\ all_files_found # << >>
    /\ course_files # << >> /\ course_files[1].course_id = COURSE_IDS[2]

-----------------------------------------------------------------------------
(* The paginated fetcher: a missing page, a body that is no list, the Link *)
(* header, and termination                                                 *)

C25_NonListBody ==
    op = "_get_paginated" =>
        \A i \in 1..Len(responses) :
            (Is200(responses[i]) /\ ~responses[i].body.isList)
            => /\ pc = "returned"
               /\ Len(responses) = i /\ Len(requests) = i
               /\ i = 1 => retval = Value(responses[1].body)
               /\ i > 1 => retval = Value(ListBody(ConcatPages(SubSeq(responses, 1, i - 1))))

\* the URL between the angle brackets of the first entry marked rel="next"
MarkedNextUrl(h) ==
    LET v == h.value
        k == CHOOSE n \in 1..Len(v) : v[n] = "rel=\"next\"" /\ \A m \in 1..(n - 1) : v[m] # "rel=\"next\""
        a == CHOOSE n \in 1..k : v[n] = "<" /\ \A m \in (n + 1)..k : v[m] # "<"
        b == CHOOSE n \in a..k : v[n] = ">" /\ \A m \in a..(n - 1) : v[m] # ">"
    IN  SubSeq(v, a + 1, b - 1)

\* C26 as stated: after a page of the collection, when the Link header has an
\* entry marked rel="next" the next GET is for the URL between that entry's
\* angle brackets, as given; otherwise (header absent, empty, or entries with
\* other rels only) no further GET is issued and the fetch returns.
C26_NextEntryFollowed ==
    op = "_get_paginated" =>
        \A i \in 1..Len(responses) :
            Is200List(responses[i]) =>
                IF HasRelNext(responses[i].link)
                THEN FurtherGetAfter(i) /\ requests[i + 1] = MarkedNextUrl(responses[i].link)
                ELSE ~FurtherGetAfter(i) /\ pc = "returned"

\* C26 amended: the entry is followed when it reads exactly <url>; rel="next"
\* with a non-empty url; an entry marked rel="next" that carries a further
\* parameter or an empty url is not followed and the fetch returns, as it does
\* when the header is absent, empty or has entries with other rels only.
C26_PlainNextEntryFollowed ==
    op = "_get_paginated" =>
        \A i \in 1..Len(responses) :
            Is200List(responses[i]) =>
                IF HasPlainNextEntry(responses[i].link)
                THEN FurtherGetAfter(i) /\ requests[i + 1] = MarkedNextUrl(responses[i].link)
                ELSE ~FurtherGetAfter(i) /\ pc = "returned"

C26_Witness ==
    /\ op = "_get_paginated" /\ pc = "returned"
    /\ Len(requests) = 3
    /\ Is200List(responses[1]) /\ responses[1].link = LinkCurrentNextFirst
    /\ requests[2] = << "p3" >>
    /\ Is200List(responses[2]) /\ responses[2].link = LinkNext
    /\ requests[3] = << "p2" >>
    /\ Is200List(responses[3]) /\ responses[3].link = LinkPrevFirstLast

\* the URL the next link of an answer leads to, << >> when it has none
ChainNextUrl(r) == IF Is200(r) /\ HasRelNext(r.link) THEN MarkedNextUrl(r.link) ELSE << >>

\* following the next links from u, the server comes to an answer without one
\* before it comes back to a URL of seen
RECURSIVE ChainEnds(_, _)
ChainEnds(u, seen) ==
    IF u \in seen THEN FALSE
    ELSE IF u \notin DOMAIN served THEN TRUE
    ELSE LET n == ChainNextUrl(served[u])
         IN  IF n = << >> THEN TRUE ELSE ChainEnds(n, seen \cup {u})

FiniteChain == served # << >> /\ ChainEnds(api_url \o << "/courses" >>, {})

\* following the links the fetcher follows from u, the server comes back to a URL of seen
RECURSIVE ChainLoops(_, _)
ChainLoops(u, seen) ==
    IF u \in seen THEN TRUE
    ELSE IF u \notin DOMAIN served THEN FALSE
    ELSE IF Is200List(served[u]) /\ HasPlainNextEntry(served[u].link)
    THEN ChainLoops(MarkedNextUrl(served[u].link), seen \cup {u})
    ELSE FALSE

FetchEnded == op = "_get_paginated" /\ pc \in {"returned", "raised"}

\* an answer the fetch ends at: an error, a body that is no list, no rel="next" entry
EndsFetch(r) == ~Is200List(r) \/ ~HasRelNext(r.link)

\* C27: when the server's next links form a finite chain the fetch ends; it
\* issues no GET after an answer that is an error, has a body that is no list
\* or has no rel="next" entry; a next link that leads to a URL already
\* requested is requested again, and against a server whose links lead the
\* fetcher round in a circle the fetch never ends.
C27_FiniteChainTerminates ==
    /\ FiniteChain ~> FetchEnded
    /\ [](op = "_get_paginated" =>
            \A i \in 1..Len(responses) :
                /\ EndsFetch(responses[i]) => (FetchEnded /\ Len(requests) = i)
                /\ (Is200List(responses[i]) /\ HasPlainNextEntry(responses[i].link)
                      /\ \E j \in 1..i : requests[j] = MarkedNextUrl(responses[i].link))
                   => (FurtherGetAfter(i)
                         /\ requests[i + 1] = MarkedNextUrl(responses[i].link)))
    /\ []((served # << >> /\ ChainLoops(api_url \o << "/courses" >>, {})) => ~FetchEnded)

C27_Witness ==
    /\ FiniteChain /\ FetchEnded /\ pc = "returned"
    /\ Len(responses) = 3 /\ requests[2] # requests[3]
    /\ \A i \in 1..3 : Is200List(responses[i])

-----------------------------------------------------------------------------
(* upload_file without input, the existence check without a folder, and    *)
(* get_folder_id                                                           *)

\* C24: upload_file called with neither file_content nor file_path raises
\* ValueError to its caller and sends nothing to the backend (no list, no
\* create).
C24_MissingInputRaises ==
    (d_op = "upload_file" /\ d_args.payload = "none")
    => /\ upload_raised
       /\ drive_log = << >>
       /\ store = store_before

\* C23: with folder_id None the existence check looks at the Drive root only:
\* file_exists reports a file only when a non-trashed file of the name lies in
\* the root, and upload_file (bytes or path, no backend error) creates the
\* file when none lies there, also when one lies in another folder.
C23_NoFolderSearchesRoot ==
    /\ (d_op = "file_exists" /\ d_args.folder_id = "None" /\ d_env.list = "ok"
           /\ InDestination(store_before, d_args.filename, "None") = {})
       => exists_ret = NoFile
    /\ (d_op = "upload_file" /\ d_args.folder_id = "None" /\ d_args.payload \in {"bytes", "path"}
           /\ d_env.list = "ok" /\ d_env.upload = "ok"
           /\ InDestination(store_before, d_args.filename, "None") = {})
       => /\ Count(drive_log, "files.create") = 1
          /\ Len(store) = Len(store_before) + 1

\* the folders of fs a call for name n under parent p is about: not trashed,
\* named n, and under p when p is given
FoldersNamed(fs, n, p) ==
    { i \in 1..Len(fs) :
        fs[i].name = n /\ ~fs[i].trashed /\ (p # "None" => fs[i].parent = p) }

FolderCallFailed(c) ==
    c.list # "ok" \/ (FoldersNamed(c.before, c.folder_name, c.parent_id) = {} /\ c.create # "ok")

\* C30: get_folder_id finds or creates.  When a non-trashed folder of the name
\* exists (under the parent when one is given) the call returns the id of the
\* first one listed and creates nothing; when none exists it creates one
\* folder of that name (under the parent, else in the root) and returns its
\* id; of two calls with the same arguments that meet no backend error the
\* later returns the id the earlier returned and creates nothing.  On a
\* backend error the call returns None, raises nothing and creates nothing,
\* and the existence checks and uploads that follow are made with folder None:
\* the check looks at files of every folder and the upload stores in the root.
C30_FindOrCreateFolder ==
    /\ \A k \in 1..Len(folder_calls) :
           LET c == folder_calls[k]
               m == FoldersNamed(c.before, c.folder_name, c.parent_id)
           IN  /\ ~c.raised
               /\ FolderCallFailed(c) => (c.ret = "None" /\ c.after = c.before)
               /\ (c.list = "ok" /\ m # {})
                  => /\ c.ret = c.before[CHOOSE i \in m : \A j \in m : i <= j].id
                     /\ c.after = c.before
                     /\ Count(c.log, "files.create") = 0
               /\ (c.list = "ok" /\ m = {} /\ c.create = "ok")
                  => /\ Len(c.after) = Len(c.before) + 1
                     /\ SubSeq(c.after, 1, Len(c.before)) = c.before
                     /\ c.ret # "None"
                     /\ c.after[Len(c.after)]
                            = [id |-> c.ret, name |-> c.folder_name, trashed |-> FALSE,
                               parent |-> IF c.parent_id = "None" THEN "root" ELSE c.parent_id]
                     /\ \A i \in 1..Len(c.before) : c.before[i].id # c.ret
                     /\ Count(c.log, "files.create") = 1
               /\ \A j \in 1..(k - 1) :
                      LET b == folder_calls[j]
                      IN  (b.parent_id = c.parent_id /\ b.folder_name = c.folder_name
                             /\ ~FolderCallFailed(b) /\ ~FolderCallFailed(c))
                          => (c.ret = b.ret /\ c.after = c.before)
    /\ folder_calls # << >> => target_folder_id = folder_calls[Len(folder_calls)].ret
    /\ (d_op \in {"file_exists", "upload_file"} /\ folder_calls # << >>)
       => /\ d_args.folder_id = target_folder_id
          /\ (FolderCallFailed(folder_calls[Len(folder_calls)]) /\ d_env.list = "ok")
             => /\ Len(listed) = Cardinality({ i \in 1..Len(store_before) :
                                                  /\ store_before[i].name = d_args.filename
                                                  /\ ~store_before[i].trashed })
                /\ store # store_before => store[Len(store)].parent = "root"

C30_Witness ==
    /\ Len(folder_calls) = 2 /\ d_op = "get_folder_id"
    /\ folder_calls[1].before = << >> /\ folder_calls[1].parent_id = "parent9"
    /\ folder_calls[1].ret = "new1"
    /\ folder_calls[2].parent_id = "parent9" /\ folder_calls[2].ret = "new1"
    /\ folders = << StoredFolder("new1", DefaultFolderName, "parent9", FALSE) >>

\* main has left the folder resolution behind
FolderResolved == scan_pc # "folder"

\* C21: the destination folder is resolved once per program run, before the
\* scan and so before any transfer; from then on target_folder_id is what that
\* one call returned, and every existence check and every upload, of the first
\* pass over the descriptors and of the second, is given that id as its folder.
C21_FolderResolvedOnce ==
    /\ Len(folder_calls) = (IF FolderResolved THEN 1 ELSE 0)
    /\ ~FolderResolved => (x_pc = "idle" /\ d_op = "none" /\ store = store_first)
    /\ FolderResolved
       => /\ target_folder_id = folder_calls[1].ret
          /\ d_op \in {"file_exists", "upload_file"}
             => d_args.folder_id = folder_calls[1].ret
          /\ \A i \in 1..Len(store) :
                 i > Len(store_first)
                 => store[i].parent = (IF folder_calls[1].ret = "None" THEN "root"
                                       ELSE folder_calls[1].ret)

C21_Witness ==
    /\ x_run = 2
    /\ Len(folder_calls) = 1 /\ folder_calls[1].ret = "new1"
    /\ d_op = "upload_file" /\ d_args.folder_id = "new1"
    /\ Len(store) = 2 /\ store[1].parent = "new1" /\ store[2].parent = "new1"

TransferSucceeded(o) == o.kind = "result" /\ o.result.upload_success

\* the non-trashed files of s that an existence check for name n looks at
HeldInDestination(s, n) ==
    { i \in 1..Len(s) :
        /\ s[i].name = n /\ ~s[i].trashed
        /\ Truthy(target_folder_id) => s[i].parent = target_folder_id }

\* C22: the scan keeps every link: the descriptors are the File items of the
\* scanned courses' modules, one per link, so a file linked from two modules
\* has two descriptors.  Each is transferred on its own, in list order.  In a
\* first pass with no failing Drive listing, a transfer that succeeds for a
\* content_id whose file the destination did not hold, and that no earlier
\* descriptor has, creates an object; a transfer that succeeds for a
\* content_id an earlier descriptor created the object of is a duplicate skip
\* with that object's id, and the destination holds one object of the name.
C22_NoDedupByContentId ==
    /\ scan_pc \notin {"idle", "folder"}
       => Descriptors(all_files_found) = FilesOfCourses(scan_ok)
    /\ \A k \in 1..Len(x_results) : x_results[k].file = k
    /\ (x_run = 1 /\ ~list_failed)
       => \A k \in 1..Len(x_results) :
              LET o == x_results[k].outcome
                  earlier == { j \in 1..(k - 1) :
                                 all_files_found[j].content_id = all_files_found[k].content_id }
              IN  TransferSucceeded(o)
                  => /\ (earlier = {} /\ HeldInDestination(store_first, o.result.filename) = {})
                        => Created(o)
                     /\ \A j \in earlier :
                            Created(x_results[j].outcome)
                            => /\ o.result.duplicate_skipped
                               /\ o.result.destination_id
                                      = x_results[j].outcome.result.destination_id
                               /\ Cardinality(HeldInDestination(store, o.result.filename)) = 1

C22_Witness ==
    /\ x_run = 1 /\ x_pc = "summary" /\ ~list_failed
    /\ Len(all_files_found) = 2
    /\ all_files_found[1].course_id = all_files_found[2].course_id
    /\ all_files_found[1].module_name # all_files_found[2].module_name
    /\ all_files_found[1].content_id = all_files_found[2].content_id
    /\ Created(x_results[1].outcome)
    /\ x_results[2].outcome.result.duplicate_skipped
    /\ Len(store) = Len(store_first) + 1

\* the descriptors handled so far whose outcome is a new upload / a duplicate skip
NewUploads == { k \in 1..Len(x_results) : Created(x_results[k].outcome) }

DuplicateSkips ==
    { k \in 1..Len(x_results) :
        /\ x_results[k].outcome.kind = "result"
        /\ x_results[k].outcome.result.upload_success
        /\ x_results[k].outcome.result.duplicate_skipped }

====
